---- MODULE Spec2Model ----
(***************************************************************************)
(* State-machine model of yt_uploader.py: the history store                *)
(* (load/save/add/update on upload_history.json), the progress window's    *)
(* cancel flag, and the upload session started by                          *)
(* YouTubeUploaderApp._upload: the worker thread upload_thread and the     *)
(* 100 ms poll check_upload on the Tk event loop.                          *)
(* Beside the session: the schedule fields (_set_schedule_datetime,        *)
(* _get_scheduled_datetime), _calculate_next_day_slot with its cache,      *)
(* _reset_form, _find_partial_upload_video_id and _validate_inputs.        *)
(*                                                                         *)
(* Representation.                                                         *)
(*  - A history entry is a Python dict: a function whose DOMAIN is the set *)
(*    of keys present.  uploaded_at (datetime.now().isoformat()) is the    *)
(*    clock reading it was taken at; isoformat is injective on readings.   *)
(*  - upload_state['response'] is represented by response['id'].           *)
(*  - An exception object is named by a string; str(e) is ErrorStr(e).     *)
(*  - The channel is the list, most recent first, of the remote videos     *)
(*    whose title, description and publish time match the request.         *)
(*  - The worker thread interleaves with the poll between any two of its   *)
(*    writes to upload_state, so each write is a step of its own; the poll *)
(*    is split where it re-reads upload_state after running the event loop *)
(*    (window.update() inside update_progress).                            *)
(*  - save_upload_history is taken to succeed: its except clause only      *)
(*    prints, and a failed write is an input/output fault of the host.     *)
(***************************************************************************)
EXTENDS Integers, Sequences, FiniteSets, TLC

\* ------------------------------------------------------------- bounds
MaxSessions == 2
MaxChunks == 3
MultiChunks == 2
MaxKeys == 2
MaxEntries == 2
MaxAppends == 105
MaxVideos == 3
MaxFound == 2
MaxOps == 2

\* ---------------------------------------------------------- constants
HistoryLimit == 100
DescriptionPrefix == 100
TitleLimit == 100
NoId == 0
OldVideo == 99

Sessions == 1..MaxSessions

\* status.progress() * 100 as returned by next_chunk, in any order
ProgressValues == {0, 30, 60}

\* exceptions raised by videos().insert(), next_chunk() and delete()
Errors == {"HttpError", "OSError"}
NoError == "None"

ErrorStr(e) ==
  IF e = "HttpError" THEN "<HttpError 403 quotaExceeded>" ELSE "[Errno 5] Input/output error"

Min(S) == CHOOSE x \in S : \A y \in S : x <= y

\* the id the remote assigns to the video of session s
VideoId(s) == s

VideoUrl(id) == <<"https://www.youtube.com/watch?v=", id>>

\* ------------------------------------------------------ history store

\* dict.update
DictUpdate(entry, updates) ==
  [f \in (DOMAIN entry) \cup (DOMAIN updates) |->
     IF f \in DOMAIN updates THEN updates[f] ELSE entry[f]]

\* dict.get('uploaded_at') == uploaded_at
KeyMatches(entry, uploaded_at) ==
  /\ "uploaded_at" \in DOMAIN entry
  /\ entry["uploaded_at"] = uploaded_at

AbsentFile == [kind |-> "absent", entries |-> <<>>]
CorruptFile == [kind |-> "corrupt", entries |-> <<>>]
UnreadableFile == [kind |-> "unreadable", entries |-> <<>>]

\* mutant: the parsed list is returned in reverse order
load_upload_history_reversed(file) ==
  IF file.kind = "json"
  THEN [i \in 1..Len(file.entries) |-> file.entries[Len(file.entries) + 1 - i]]
  ELSE <<>>

load_upload_history(file) ==
  IF file.kind = "json" THEN file.entries ELSE <<>>

save_upload_history(history) == [kind |-> "json", entries |-> history]

\* mutant: the slice keeps the tail of the list, dropping the newest entry
TruncateTail(history) ==
  SubSeq(history,
         IF Len(history) < HistoryLimit THEN 1 ELSE Len(history) - HistoryLimit + 1,
         Len(history))

\* history[:100]
Truncate(history) ==
  SubSeq(history, 1, IF Len(history) < HistoryLimit THEN Len(history) ELSE HistoryLimit)

\* mutant: a file that cannot be parsed is left as it is
add_to_history_keeps_file(file, entry, now) ==
  LET history == load_upload_history(file)
      e == IF "uploaded_at" \in DOMAIN entry
           THEN entry
           ELSE DictUpdate(entry, [uploaded_at |-> now])
  IN [file |-> IF file.kind \in {"corrupt", "unreadable"}
               THEN file
               ELSE save_upload_history(Truncate(<<e>> \o history)),
      ret |-> e["uploaded_at"]]

add_to_history(file, entry, now) ==
  LET history == load_upload_history(file)
      e == IF "uploaded_at" \in DOMAIN entry
           THEN entry
           ELSE DictUpdate(entry, [uploaded_at |-> now])
  IN [file |-> save_upload_history(Truncate(<<e>> \o history)),
      ret |-> e["uploaded_at"]]

\* mutant: the update is applied to the first entry of the log
update_history_entry_first(file, uploaded_at, updates) ==
  LET history == load_upload_history(file)
  IN IF Len(history) = 0
     THEN [file |-> file, ret |-> FALSE]
     ELSE [file |-> save_upload_history(
                      [history EXCEPT ![1] = DictUpdate(@, updates)]),
           ret |-> TRUE]

\* mutant: the update is applied to the last entry with the key
update_history_entry_last(file, uploaded_at, updates) ==
  LET history == load_upload_history(file)
      hits == {i \in 1..Len(history) : KeyMatches(history[i], uploaded_at)}
  IN IF hits = {}
     THEN [file |-> file, ret |-> FALSE]
     ELSE [file |-> save_upload_history(
                      [history EXCEPT ![CHOOSE i \in hits : \A j \in hits : j <= i] =
                                        DictUpdate(@, updates)]),
           ret |-> TRUE]

\* mutant: the log is saved even when no entry matches
update_history_entry_saves(file, uploaded_at, updates) ==
  LET history == load_upload_history(file)
      hits == {i \in 1..Len(history) : KeyMatches(history[i], uploaded_at)}
  IN IF hits = {}
     THEN [file |-> save_upload_history(history), ret |-> FALSE]
     ELSE [file |-> save_upload_history(
                      [history EXCEPT ![Min(hits)] = DictUpdate(@, updates)]),
           ret |-> TRUE]

update_history_entry(file, uploaded_at, updates) ==
  LET history == load_upload_history(file)
      hits == {i \in 1..Len(history) : KeyMatches(history[i], uploaded_at)}
  IN IF hits = {}
     THEN [file |-> file, ret |-> FALSE]
     ELSE [file |-> save_upload_history(
                      [history EXCEPT ![Min(hits)] = DictUpdate(@, updates)]),
           ret |-> TRUE]

\* the entry of the stored log with the given key
EntryOf(file, uploaded_at) ==
  LET history == load_upload_history(file)
      hits == {i \in 1..Len(history) : KeyMatches(history[i], uploaded_at)}
  IN history[Min(hits)]

HasEntry(file, uploaded_at) ==
  \E i \in 1..Len(load_upload_history(file)) :
     KeyMatches(load_upload_history(file)[i], uploaded_at)

\* --------------------------------------------------------------- text
\* A str is the sequence of its characters.

Digits == <<"0", "1", "2", "3", "4", "5", "6", "7", "8", "9">>

DigitVal(c) == (CHOOSE i \in 1..10 : Digits[i] = c) - 1

\* str(n), n >= 0
RECURSIVE Str(_)
Str(n) ==
  IF n < 10 THEN <<Digits[n + 1]>> ELSE Str(n \div 10) \o <<Digits[(n % 10) + 1]>>

\* str.zfill(width)
RECURSIVE Zfill(_, _)
Zfill(s, width) == IF Len(s) >= width THEN s ELSE Zfill(<<"0">> \o s, width)

\* int(s) raises ValueError unless s is a numeral
IsNumeral(s) ==
  /\ Len(s) > 0
  /\ \A i \in 1..Len(s) : \E j \in 1..10 : Digits[j] = s[i]

RECURSIVE ParseInt(_)
ParseInt(s) ==
  IF Len(s) = 1
  THEN DigitVal(s[1])
  ELSE ParseInt(SubSeq(s, 1, Len(s) - 1)) * 10 + DigitVal(s[Len(s)])

\* n copies of the character c
Rep(c, n) == [i \in 1..n |-> c]

\* s[:n]
Prefix(s, n) == SubSeq(s, 1, IF Len(s) < n THEN Len(s) ELSE n)

\* s.startswith(p)
StartsWith(s, p) == Len(p) <= Len(s) /\ SubSeq(s, 1, Len(p)) = p

\* s.strip()
RECURSIVE Strip(_)
Strip(s) ==
  IF s = <<>> THEN s
  ELSE IF s[1] = " " THEN Strip(Tail(s))
  ELSE IF s[Len(s)] = " " THEN Strip(SubSeq(s, 1, Len(s) - 1))
  ELSE s

\* ----------------------------------------------------------- datetime
\* A naive datetime is [year, month, day, hour, minute, second]; the
\* arithmetic is the proleptic Gregorian ordinal arithmetic of the
\* datetime module.

IsLeap(y) == (y % 4 = 0) /\ ((y % 100 # 0) \/ (y % 400 = 0))

DaysInMonth(y, m) ==
  IF m = 2 THEN (IF IsLeap(y) THEN 29 ELSE 28)
  ELSE IF m \in {4, 6, 9, 11} THEN 30 ELSE 31

RECURSIVE DaysBeforeMonth(_, _)
DaysBeforeMonth(y, m) ==
  IF m = 1 THEN 0 ELSE DaysBeforeMonth(y, m - 1) + DaysInMonth(y, m - 1)

DaysBeforeYear(y) ==
  (y - 1) * 365 + (y - 1) \div 4 - (y - 1) \div 100 + (y - 1) \div 400

\* date.toordinal(): 0001-01-01 is day 1
ToOrdinal(dt) == DaysBeforeYear(dt.year) + DaysBeforeMonth(dt.year, dt.month) + dt.day

\* date.fromordinal(n)
FromOrdinal(n) ==
  LET guess == (n * 400) \div 146097
      y == CHOOSE yy \in guess..(guess + 2) :
             DaysBeforeYear(yy) < n /\ n <= DaysBeforeYear(yy + 1)
      r == n - DaysBeforeYear(y)
      m == CHOOSE mm \in 1..12 :
             DaysBeforeMonth(y, mm) < r /\ r <= DaysBeforeMonth(y, mm) + DaysInMonth(y, mm)
  IN [year |-> y, month |-> m, day |-> r - DaysBeforeMonth(y, m)]

SecondOfDay(dt) == dt.hour * 3600 + dt.minute * 60 + dt.second

\* dt + timedelta(seconds=seconds)
AddSeconds(dt, seconds) ==
  LET s == SecondOfDay(dt) + seconds
      date == FromOrdinal(ToOrdinal(dt) + s \div 86400)
      r == s % 86400
  IN [year |-> date.year, month |-> date.month, day |-> date.day,
      hour |-> r \div 3600, minute |-> (r % 3600) \div 60, second |-> r % 60]

\* dt + timedelta(days=days)
AddDays(dt, days) == AddSeconds(dt, days * 86400)

\* a <= b on datetimes
DtLeq(a, b) ==
  \/ ToOrdinal(a) < ToOrdinal(b)
  \/ ToOrdinal(a) = ToOrdinal(b) /\ SecondOfDay(a) <= SecondOfDay(b)

\* datetime(year, month, day, hour, minute) raises ValueError unless
ValidDateTime(year, month, day, hour, minute) ==
  /\ year \in 1..9999
  /\ month \in 1..12
  /\ day \in 1..DaysInMonth(year, month)
  /\ hour \in 0..23
  /\ minute \in 0..59

\* ---------------------------------------------------- schedule fields
\* The six StringVars of the schedule row, as the text they hold.

\* _set_schedule_datetime(dt)
set_schedule_datetime(dt) ==
  LET hour_12 == IF dt.hour = 0 THEN 12
                 ELSE IF dt.hour < 12 THEN dt.hour
                 ELSE IF dt.hour = 12 THEN 12
                 ELSE dt.hour - 12
      ampm == IF dt.hour = 0 THEN "AM"
              ELSE IF dt.hour < 12 THEN "AM"
              ELSE "PM"
  IN [month_var |-> Zfill(Str(dt.month), 2),
      day_var |-> Zfill(Str(dt.day), 2),
      year_var |-> Str(dt.year),
      hour_var |-> Zfill(Str(hour_12), 2),
      minute_var |-> Zfill(Str(dt.minute), 2),
      ampm_var |-> ampm]

\* the value of _get_scheduled_datetime where it returns None
NoneDateTime ==
  [valid |-> FALSE,
   dt |-> [year |-> 1, month |-> 1, day |-> 1, hour |-> 0, minute |-> 0, second |-> 0]]

\* mutant: a PM hour is not moved to the afternoon
get_scheduled_datetime_no_pm(schedule) ==
  IF ~(/\ IsNumeral(schedule.month_var) /\ IsNumeral(schedule.day_var)
       /\ IsNumeral(schedule.year_var) /\ IsNumeral(schedule.hour_var)
       /\ IsNumeral(schedule.minute_var))
  THEN NoneDateTime
  ELSE LET hour == ParseInt(schedule.hour_var)
           hour_24 == IF schedule.ampm_var = "AM" /\ hour = 12 THEN 0 ELSE hour
       IN IF ValidDateTime(ParseInt(schedule.year_var), ParseInt(schedule.month_var),
                           ParseInt(schedule.day_var), hour_24, ParseInt(schedule.minute_var))
          THEN [valid |-> TRUE,
                dt |-> [year |-> ParseInt(schedule.year_var), month |-> ParseInt(schedule.month_var),
                        day |-> ParseInt(schedule.day_var), hour |-> hour_24,
                        minute |-> ParseInt(schedule.minute_var), second |-> 0]]
          ELSE NoneDateTime

\* mutant: 12 AM is not moved to midnight
get_scheduled_datetime_no_midnight(schedule) ==
  IF ~(/\ IsNumeral(schedule.month_var) /\ IsNumeral(schedule.day_var)
       /\ IsNumeral(schedule.year_var) /\ IsNumeral(schedule.hour_var)
       /\ IsNumeral(schedule.minute_var))
  THEN NoneDateTime
  ELSE LET hour == ParseInt(schedule.hour_var)
           hour_24 == IF schedule.ampm_var = "PM" /\ hour # 12 THEN hour + 12 ELSE hour
       IN IF ValidDateTime(ParseInt(schedule.year_var), ParseInt(schedule.month_var),
                           ParseInt(schedule.day_var), hour_24, ParseInt(schedule.minute_var))
          THEN [valid |-> TRUE,
                dt |-> [year |-> ParseInt(schedule.year_var), month |-> ParseInt(schedule.month_var),
                        day |-> ParseInt(schedule.day_var), hour |-> hour_24,
                        minute |-> ParseInt(schedule.minute_var), second |-> 0]]
          ELSE NoneDateTime

\* _get_scheduled_datetime(): [valid, dt]; a ValueError (a field that is no
\* numeral, a date or time out of range) makes it return None
get_scheduled_datetime(schedule) ==
  IF ~(/\ IsNumeral(schedule.month_var) /\ IsNumeral(schedule.day_var)
       /\ IsNumeral(schedule.year_var) /\ IsNumeral(schedule.hour_var)
       /\ IsNumeral(schedule.minute_var))
  THEN NoneDateTime
  ELSE LET hour == ParseInt(schedule.hour_var)
           hour_24 == IF schedule.ampm_var = "PM" /\ hour # 12 THEN hour + 12
                      ELSE IF schedule.ampm_var = "AM" /\ hour = 12 THEN 0
                      ELSE hour
       IN IF ValidDateTime(ParseInt(schedule.year_var), ParseInt(schedule.month_var),
                           ParseInt(schedule.day_var), hour_24, ParseInt(schedule.minute_var))
          THEN [valid |-> TRUE,
                dt |-> [year |-> ParseInt(schedule.year_var), month |-> ParseInt(schedule.month_var),
                        day |-> ParseInt(schedule.day_var), hour |-> hour_24,
                        minute |-> ParseInt(schedule.minute_var), second |-> 0]]
          ELSE NoneDateTime

\* --------------------------------------------- _calculate_next_day_slot
\* A publishAt text "YYYY-MM-DDTHH:MM:SS<frac>Z" is [utc, frac]: the
\* datetime it spells and its fractional-seconds part ("" or ".000").
\* A video of videos().list is a dict that may lack publishAt.

\* datetime.fromisoformat of the text with the fraction and the zone cut off
ParsePublishAt(publish_at) == publish_at.utc

ScheduledVideo(video, utc_offset_seconds) ==
  [title |-> video.title,
   publishAt |-> ParsePublishAt(video.publishAt),
   publishAtLocal |-> AddSeconds(ParsePublishAt(video.publishAt), utc_offset_seconds),
   publishAtStr |-> video.publishAt]

\* the loop over videos_response['items']
ScheduledVideos(items, utc_offset_seconds) ==
  LET dated == SelectSeq(items, LAMBDA video : "publishAt" \in DOMAIN video)
  IN [i \in 1..Len(dated) |-> ScheduledVideo(dated[i], utc_offset_seconds)]

\* scheduled_videos.sort(key=lambda x: x['publishAt']): a stable sort
RECURSIVE SortByPublishAt(_)
SortByPublishAt(videos) ==
  IF Len(videos) = 0
  THEN <<>>
  ELSE LET sorted == SortByPublishAt(SubSeq(videos, 1, Len(videos) - 1))
           x == videos[Len(videos)]
           k == Cardinality({i \in 1..Len(sorted) :
                               DtLeq(sorted[i].publishAt, x.publishAt)})
       IN SubSeq(sorted, 1, k) \o <<x>> \o SubSeq(sorted, k + 1, Len(sorted))

\* mutant: the earliest scheduled video is taken
LatestIsFirst(sorted) == sorted[1]

\* latest = scheduled_videos[-1]
Latest(sorted) == sorted[Len(sorted)]

\* _scheduled_videos_cache = None
NoCache == [none |-> TRUE]

\* What the handler leaves behind, given the schedule fields, the remote's
\* answer and the local zone's offset: the fields, the status label, the
\* cache and the state of the View Schedule button.
calculate_next_day_slot(schedule, response, utc_offset_seconds) ==
  LET early(label) ==
        [schedule |-> schedule, label |-> label, cache |-> NoCache,
         view_schedule_btn |-> "disabled"]
      scheduled_videos == ScheduledVideos(response.items, utc_offset_seconds)
      current_dt == get_scheduled_datetime(schedule)
      sorted == SortByPublishAt(scheduled_videos)
      latest == Latest(sorted)
      next_day_local == AddDays(latest.publishAtLocal, 1)
  IN IF response.kind = "auth_failed" THEN early("Authentication failed")
     ELSE IF response.kind = "error" THEN early("Error")
     ELSE IF response.kind = "no_channel" THEN early("No channel found")
     ELSE IF response.kind = "no_videos" THEN early("No videos found")
     ELSE IF Len(scheduled_videos) = 0
     THEN [schedule |-> IF current_dt.valid
                        THEN set_schedule_datetime(AddDays(current_dt.dt, 1))
                        ELSE schedule,
           label |-> "No scheduled videos found. Using current time + 1 day.",
           cache |-> NoCache,
           view_schedule_btn |-> "disabled"]
     ELSE [schedule |-> set_schedule_datetime(next_day_local),
           label |-> "Set to day after",
           cache |-> [videos |-> sorted, latest |-> latest, next_day |-> next_day_local],
           view_schedule_btn |-> "normal"]

\* ---------------------------------------- _find_partial_upload_video_id
\* An item of search().list is [videoId, title, description, listed,
\* publishAt]: its id (NoId when the key is missing), its snippet, whether
\* videos().list(id) returns it, and the publishAt text of its status.

\* publish_at is None
NoPublishAt == [none |-> TRUE]

\* status.get('publishAt', '') of a video that has none
EmptyText == [empty |-> TRUE]

\* text.replace('.000Z', 'Z')
Replace000Z(text) ==
  IF "frac" \in DOMAIN text /\ text.frac = ".000"
  THEN [text EXCEPT !.frac = ""]
  ELSE text

\* mutant: the description is not compared
ItemMatchesAnyDescription(item, title, description, publish_at) ==
  /\ item.title = title
  /\ (publish_at # NoPublishAt /\ item.videoId # NoId /\ item.listed) =>
       Replace000Z(publish_at) = Replace000Z(item.publishAt)

\* the loop body reaches "return video_id" for the item
ItemMatches(item, title, description, publish_at) ==
  /\ item.title = title
  /\ ~(Len(description) > 0
       /\ ~StartsWith(item.description, Prefix(description, DescriptionPrefix)))
  /\ (publish_at # NoPublishAt /\ item.videoId # NoId /\ item.listed) =>
       Replace000Z(publish_at) = Replace000Z(item.publishAt)

\* the id of the first item that matches, None if there is none or a
\* remote call raised
find_partial_upload_video_id(call) ==
  LET hits == {i \in 1..Len(call.items) :
                 ItemMatches(call.items[i], call.title, call.description,
                             call.publish_at)}
  IN IF call.raises \/ hits = {}
     THEN NoId
     ELSE call.items[Min(hits)].videoId

\* ---------------------------------------------------- _validate_inputs
\* The form is [video_path, title, privacy], the entries' text and the
\* selected privacy.

VIDEO_EXTENSIONS ==
  {<<".", "m", "p", "4">>, <<".", "a", "v", "i">>, <<".", "m", "o", "v">>,
   <<".", "m", "k", "v">>, <<".", "w", "m", "v">>, <<".", "f", "l", "v">>,
   <<".", "w", "e", "b", "m">>, <<".", "m", "4", "v">>,
   <<".", "m", "p", "e", "g">>, <<".", "m", "p", "g">>, <<".", "3", "g", "p">>}

\* the files of the host: Path(video_path).exists()
ExistingFiles ==
  {<<"a", ".", "m", "p", "4">>, <<"a", ".", "t", "x", "t">>}

\* Path(video_path).suffix of a bare file name
Suffix(path) ==
  LET dots == {i \in 2..Len(path) : path[i] = "."}
  IN IF dots = {} THEN <<>>
     ELSE SubSeq(path, CHOOSE i \in dots : \A j \in dots : j <= i, Len(path))

\* mutant: the title's length is not checked
validate_inputs_any_length(form, schedule, now, answer) ==
  LET video_path == Strip(form.video_path)
      title == Strip(form.title)
      scheduled_dt == get_scheduled_datetime(schedule)
      warning == IF Suffix(video_path) \in VIDEO_EXTENSIONS
                 THEN <<>> ELSE <<"unsupported_format">>
  IN IF Len(video_path) = 0 THEN [ok |-> FALSE, boxes |-> <<"select_file">>]
     ELSE IF video_path \notin ExistingFiles
     THEN [ok |-> FALSE, boxes |-> <<"file_missing">>]
     ELSE IF Len(title) = 0
     THEN [ok |-> FALSE, boxes |-> warning \o <<"enter_title">>]
     ELSE IF form.privacy = "scheduled" /\ ~scheduled_dt.valid
     THEN [ok |-> FALSE, boxes |-> warning \o <<"invalid_datetime">>]
     ELSE IF form.privacy = "scheduled" /\ DtLeq(scheduled_dt.dt, now)
     THEN [ok |-> FALSE, boxes |-> warning \o <<"not_in_future">>]
     ELSE IF form.privacy = "public"
     THEN [ok |-> answer, boxes |-> warning \o <<"confirm_public">>]
     ELSE [ok |-> TRUE, boxes |-> warning]

\* _validate_inputs(): [ok, boxes], the result and the message boxes shown;
\* answer is the user's answer to the public-upload confirmation
validate_inputs(form, schedule, now, answer) ==
  LET video_path == Strip(form.video_path)
      title == Strip(form.title)
      scheduled_dt == get_scheduled_datetime(schedule)
      warning == IF Suffix(video_path) \in VIDEO_EXTENSIONS
                 THEN <<>> ELSE <<"unsupported_format">>
  IN IF Len(video_path) = 0 THEN [ok |-> FALSE, boxes |-> <<"select_file">>]
     ELSE IF video_path \notin ExistingFiles
     THEN [ok |-> FALSE, boxes |-> <<"file_missing">>]
     ELSE IF Len(title) = 0
     THEN [ok |-> FALSE, boxes |-> warning \o <<"enter_title">>]
     ELSE IF Len(title) > TitleLimit
     THEN [ok |-> FALSE, boxes |-> warning \o <<"title_too_long">>]
     ELSE IF form.privacy = "scheduled" /\ ~scheduled_dt.valid
     THEN [ok |-> FALSE, boxes |-> warning \o <<"invalid_datetime">>]
     ELSE IF form.privacy = "scheduled" /\ DtLeq(scheduled_dt.dt, now)
     THEN [ok |-> FALSE, boxes |-> warning \o <<"not_in_future">>]
     ELSE IF form.privacy = "public"
     THEN [ok |-> answer, boxes |-> warning \o <<"confirm_public">>]
     ELSE [ok |-> TRUE, boxes |-> warning]

\* the caller's clock: datetime.now() at the clock reading
Today ==
  [year |-> 2025, month |-> 6, day |-> 1, hour |-> 12, minute |-> 0, second |-> 0]

Now(reading) == AddSeconds(Today, reading * 60)

\* the schedule fields as the constructor and _reset_form set them:
\* tomorrow, 12:00 PM
DefaultSchedule ==
  [set_schedule_datetime(AddDays(Today, 1)) EXCEPT
     !.hour_var = <<"1", "2">>, !.minute_var = <<"0", "0">>, !.ampm_var = "PM"]

ValidForm ==
  [video_path |-> <<"a", ".", "m", "p", "4">>,
   title |-> <<"c", "l", "i", "p">>,
   privacy |-> "scheduled"]

\* the entry _upload hands to add_to_history: the request's metadata,
\* status uploading, progress 0; it carries no uploaded_at
UploadEntry(form) ==
  [title |-> Strip(form.title), filename |-> Strip(form.video_path),
   privacy |-> form.privacy, status |-> "uploading", progress |-> 0]

\* _reset_form(): the entries are emptied, the privacy is scheduled, the
\* schedule row shows tomorrow 12:00 PM, the cache is dropped, the View
\* Schedule button is disabled and the status label is blank
reset_form(now) ==
  LET tomorrow == AddDays(now, 1)
  IN [form |-> [video_path |-> <<>>, title |-> <<>>, privacy |-> "scheduled"],
      schedule |-> [month_var |-> Zfill(Str(tomorrow.month), 2),
                    day_var |-> Zfill(Str(tomorrow.day), 2),
                    year_var |-> Str(tomorrow.year),
                    hour_var |-> <<"1", "2">>,
                    minute_var |-> <<"0", "0">>,
                    ampm_var |-> "PM"],
      cache |-> NoCache,
      view_schedule_btn |-> "disabled",
      label |-> ""]

\* -------------------------------------------------------------- state
VARIABLES
  historyFile,   \* upload_history.json
  clock,         \* datetime.now()
  channel,       \* remote videos matching the request, most recent first
  wpc,           \* upload_thread's position, per session
  upload_state,  \* the dict shared by upload_thread and check_upload
  sent,          \* next_chunk calls that returned or raised
  cancelled,     \* UploadProgressWindow.cancelled
  current_progress, \* UploadProgressWindow._current_progress
  window,        \* the progress window exists (not destroyed)
  dialog,        \* the askyesno confirmation of _on_cancel
  ppc,           \* check_upload's position, per session
  history_timestamp, \* the key add_to_history returned to _upload
  event,         \* the message box check_upload showed at the end
  searches,      \* search().list calls issued for the session
  deletes,       \* ids videos().delete was called with
  statusWrites,  \* update_history_entry calls that stored a status
  uploads,       \* how many times the user presses Upload in the run
  histRet,       \* the last history call's return value
  histCall,      \* the last history call: [op, key, given, found], its name,
                 \* the key and the dict it was given, the file it found
  loaded,        \* the list the last history call returned, if it was a load
  form,          \* the entries and the privacy choice of the main form
  box,           \* the message boxes the last _validate_inputs call showed
  schedule,      \* month_var, day_var, year_var, hour_var, minute_var, ampm_var
  slot_status_label,       \* the status label's text
  scheduled_videos_cache,  \* _scheduled_videos_cache
  view_schedule_btn,       \* the View Schedule button's state
  slotCall,      \* the last _calculate_next_day_slot call: what it was given
  dtCall,        \* a datetime put into the schedule fields and read back
  findCall,      \* the arguments and remote answers of a search
  findRet        \* what _find_partial_upload_video_id returned

vars == <<historyFile, clock, channel, wpc, upload_state, sent, cancelled,
          current_progress, window, dialog, ppc, history_timestamp, event,
          searches, deletes, statusWrites, uploads, histRet, histCall,
          loaded, form, box, schedule, slot_status_label,
          scheduled_videos_cache, view_schedule_btn, slotCall, dtCall,
          findCall,
          findRet>>

slotVars == <<schedule, slot_status_label, scheduled_videos_cache,
              view_schedule_btn, slotCall, dtCall>>

findVars == <<findCall, findRet>>

\* what an upload session never writes
histVars == <<uploads, histRet, histCall, loaded, form, slotVars, findVars>>

NoCall == [op |-> "none", key |-> 0, given |-> <<>>, found |-> "none"]

NoSlotCall ==
  [response |-> [kind |-> "none", items |-> <<>>], utc_offset_seconds |-> 0,
   selected |-> DefaultSchedule]

\* no datetime was put into the fields by hand
NoDtCall == [step |-> "none", given |-> Today, returned |-> NoneDateTime]

\* no slot calculation was run: the fields are as constructed
SlotIdle ==
  /\ schedule = DefaultSchedule
  /\ slot_status_label = ""
  /\ scheduled_videos_cache = NoCache
  /\ view_schedule_btn = "disabled"
  /\ slotCall = NoSlotCall
  /\ dtCall = NoDtCall

NoFindCall ==
  [raises |-> FALSE, items |-> <<>>, title |-> "", description |-> <<>>,
   publish_at |-> NoPublishAt]

NoFindRet == [called |-> FALSE, video_id |-> NoId]

FindIdle ==
  /\ findCall = NoFindCall
  /\ findRet = NoFindRet

\* a valid form is filled in
FormIdle ==
  /\ form = ValidForm
  /\ box = <<>>

InitialUploadState ==
  [response |-> NoId, error |-> NoError, progress |-> 0, done |-> FALSE,
   video_id |-> NoId]

SessionInit ==
  /\ clock = 1
  /\ wpc = [s \in Sessions |-> "none"]
  /\ upload_state = [s \in Sessions |-> InitialUploadState]
  /\ sent = [s \in Sessions |-> 0]
  /\ cancelled = [s \in Sessions |-> FALSE]
  /\ current_progress = [s \in Sessions |-> 0]
  /\ window = [s \in Sessions |-> FALSE]
  /\ dialog = [s \in Sessions |-> "none"]
  /\ ppc = [s \in Sessions |-> "none"]
  /\ history_timestamp = [s \in Sessions |-> 0]
  /\ event = [s \in Sessions |-> "none"]
  /\ searches = [s \in Sessions |-> 0]
  /\ deletes = [s \in Sessions |-> <<>>]
  /\ statusWrites = [s \in Sessions |-> 0]

\* One upload: the history file is absent, unreadable or an empty log, and
\* the channel holds no matching video or an older one.
Init ==
  /\ historyFile \in {AbsentFile, CorruptFile, save_upload_history(<<>>)}
  /\ channel \in {<<>>, <<OldVideo>>}
  /\ SessionInit
  /\ loaded = <<>>
  /\ FormIdle
  /\ SlotIdle
  /\ FindIdle
  /\ uploads = 1
  /\ histRet = FALSE
  /\ histCall = NoCall

\* The Upload button stays enabled while a session runs: MaxSessions uploads
MultiInit ==
  /\ historyFile = AbsentFile
  /\ channel = <<>>
  /\ SessionInit
  /\ loaded = <<>>
  /\ FormIdle
  /\ SlotIdle
  /\ FindIdle
  /\ uploads = MaxSessions
  /\ histRet = FALSE
  /\ histCall = NoCall

\* ------------------------------------------------------------ _upload

\* the entry of an upload of the valid form
NewEntry == UploadEntry(ValidForm)

\* _upload with inputs that pass _validate_inputs and an authenticated
\* service: the progress window is created, the entry is stored, the worker
\* thread is started and the first poll is scheduled.
\* Sessions are numbered in the order they are started.
StartUpload(s) ==
  /\ wpc[s] = "none"
  /\ s <= uploads
  /\ \A r \in Sessions : r < s => wpc[r] # "none"
  /\ \E answer \in BOOLEAN :
       LET valid == validate_inputs(form, schedule, Now(clock), answer)
       IN /\ valid.ok
          /\ box' = valid.boxes
  /\ LET added == add_to_history(historyFile, UploadEntry(form), clock)
     IN /\ historyFile' = added.file
        /\ history_timestamp' = [history_timestamp EXCEPT ![s] = added.ret]
  /\ clock' = clock + 1
  /\ window' = [window EXCEPT ![s] = TRUE]
  /\ upload_state' = [upload_state EXCEPT ![s] = InitialUploadState]
  /\ wpc' = [wpc EXCEPT ![s] = "create"]
  /\ ppc' = [ppc EXCEPT ![s] = "timer"]
  /\ UNCHANGED <<channel, sent, cancelled, current_progress, dialog, event,
                 searches, deletes, statusWrites, histVars>>

\* ------------------------------------------------------ upload_thread

workerFrame == <<historyFile, clock, cancelled, current_progress, window,
                 dialog, ppc, history_timestamp, event, searches, deletes,
                 statusWrites, histVars, box>>

\* videos().insert(...): returns the request or raises
WorkerCreate(s) ==
  /\ wpc[s] = "create"
  /\ \/ /\ wpc' = [wpc EXCEPT ![s] = "check"]
        /\ UNCHANGED upload_state
     \/ \E e \in Errors :
          /\ upload_state' = [upload_state EXCEPT ![s].error = e]
          /\ wpc' = [wpc EXCEPT ![s] = "setdone"]
  /\ UNCHANGED <<channel, sent, workerFrame>>

\* mutant: the worker returns on cancellation without setting done
WorkerCheckNoDone(s) ==
  /\ wpc[s] = "check"
  /\ IF cancelled[s]
     THEN /\ wpc' = [wpc EXCEPT ![s] = "exit"]
          /\ UNCHANGED upload_state
     ELSE /\ wpc' = [wpc EXCEPT ![s] = "chunk"]
          /\ UNCHANGED upload_state
  /\ UNCHANGED <<channel, sent, workerFrame>>

\* mutant: the loop does not look at the cancel flag
WorkerCheckIgnoresCancel(s) ==
  /\ wpc[s] = "check"
  /\ wpc' = [wpc EXCEPT ![s] = "chunk"]
  /\ UNCHANGED upload_state
  /\ UNCHANGED <<channel, sent, workerFrame>>

\* top of the while loop: the cancellation check
WorkerCheck(s) ==
  /\ wpc[s] = "check"
  /\ IF cancelled[s]
     THEN /\ upload_state' = [upload_state EXCEPT ![s].done = TRUE]
          /\ wpc' = [wpc EXCEPT ![s] = "exit"]
     ELSE /\ wpc' = [wpc EXCEPT ![s] = "chunk"]
          /\ UNCHANGED upload_state
  /\ UNCHANGED <<channel, sent, workerFrame>>

\* the most chunks a video takes: MaxChunks, or MultiChunks when several
\* uploads are made in the run
ChunkLimit == IF uploads > 1 THEN MultiChunks ELSE MaxChunks

\* mutant: the worker stores the progress in the history itself
WorkerChunkWritesHistory(s) ==
  /\ wpc[s] = "chunk"
  /\ sent' = [sent EXCEPT ![s] = @ + 1]
  /\ \/ /\ sent[s] + 1 < ChunkLimit
        /\ \E p \in ProgressValues :
             /\ upload_state' = [upload_state EXCEPT ![s].progress = p]
             /\ historyFile' = update_history_entry(historyFile, history_timestamp[s],
                                                    [progress |-> p]).file
        /\ wpc' = [wpc EXCEPT ![s] = "check"]
        /\ UNCHANGED channel
     \/ /\ channel' = <<VideoId(s)>> \o channel
        /\ upload_state' = [upload_state EXCEPT ![s].video_id = VideoId(s)]
        /\ wpc' = [wpc EXCEPT ![s] = "setresp"]
        /\ UNCHANGED historyFile
     \/ \E e \in Errors, committed \in BOOLEAN :
          /\ upload_state' = [upload_state EXCEPT ![s].error = e]
          /\ wpc' = [wpc EXCEPT ![s] = "setdone"]
          /\ channel' = IF committed THEN <<VideoId(s)>> \o channel ELSE channel
          /\ UNCHANGED historyFile
  /\ UNCHANGED <<clock, cancelled, current_progress, window, dialog, ppc,
                 history_timestamp, event, searches, deletes, statusWrites,
                 histVars, box>>

\* request.next_chunk() and the writes that follow it in the loop body.
\* An intermediate chunk returns (status, None); the last chunk makes the
\* remote create the video and returns (None, response); a call may raise,
\* on the last chunk also after the remote created the video.
WorkerChunk(s) ==
  /\ wpc[s] = "chunk"
  /\ sent' = [sent EXCEPT ![s] = @ + 1]
  /\ \/ /\ sent[s] + 1 < ChunkLimit
        /\ \E p \in ProgressValues :
             upload_state' = [upload_state EXCEPT ![s].progress = p]
        /\ wpc' = [wpc EXCEPT ![s] = "check"]
        /\ UNCHANGED channel
     \/ /\ channel' = <<VideoId(s)>> \o channel
        /\ upload_state' = [upload_state EXCEPT ![s].video_id = VideoId(s)]
        /\ wpc' = [wpc EXCEPT ![s] = "setresp"]
     \/ \E e \in Errors, committed \in BOOLEAN :
          /\ upload_state' = [upload_state EXCEPT ![s].error = e]
          /\ wpc' = [wpc EXCEPT ![s] = "setdone"]
          /\ channel' = IF committed THEN <<VideoId(s)>> \o channel ELSE channel
  /\ UNCHANGED workerFrame

\* mutant: done is written before the response
WorkerSetsDoneFirst(s) ==
  /\ wpc[s] = "setresp"
  /\ upload_state' = [upload_state EXCEPT ![s].done = TRUE]
  /\ wpc' = [wpc EXCEPT ![s] = "setdone"]
  /\ UNCHANGED <<channel, sent, workerFrame>>

\* upload_state['response'] = response
WorkerSetResponse(s) ==
  /\ wpc[s] = "setresp"
  /\ upload_state' = [upload_state EXCEPT ![s].response = upload_state[s].video_id]
  /\ wpc' = [wpc EXCEPT ![s] = "setdone"]
  /\ UNCHANGED <<channel, sent, workerFrame>>

\* mutant: the worker clears video_id when it sets done
WorkerSetDoneResetsId(s) ==
  /\ wpc[s] = "setdone"
  /\ upload_state' = [upload_state EXCEPT ![s].done = TRUE, ![s].video_id = NoId]
  /\ wpc' = [wpc EXCEPT ![s] = "exit"]
  /\ UNCHANGED <<channel, sent, workerFrame>>

\* upload_state['done'] = True, after the loop or in the except clause
WorkerSetDone(s) ==
  /\ wpc[s] = "setdone"
  /\ upload_state' = [upload_state EXCEPT ![s].done = TRUE]
  /\ wpc' = [wpc EXCEPT ![s] = "exit"]
  /\ UNCHANGED <<channel, sent, workerFrame>>

Worker(s) ==
  \/ WorkerCreate(s)
  \/ WorkerCheck(s)
  \/ WorkerChunk(s)
  \/ WorkerSetResponse(s)
  \/ WorkerSetDone(s)

\* ------------------------------------------- UploadProgressWindow

\* mutant: no early return when the flag is already set
OnCancelNoGuard(s) ==
  /\ window[s]
  /\ dialog[s] = "none"
  /\ ppc[s] \in {"timer", "hist"}
  /\ dialog' = [dialog EXCEPT ![s] = IF ppc[s] = "hist" THEN "inpoll" ELSE "main"]
  /\ UNCHANGED <<historyFile, clock, channel, wpc, upload_state, sent,
                 cancelled, current_progress, window, ppc,
                 history_timestamp, event, searches, deletes,
                 statusWrites, histVars, box>>

\* _on_cancel, up to the confirmation: returns at once when the flag is set,
\* otherwise opens the askyesno dialog.  The click is handled by the main
\* loop (a poll is pending) or by the window.update() of update_progress
\* (the poll is inside it and resumes when the dialog is answered).
OnCancel(s) ==
  /\ window[s]
  /\ dialog[s] = "none"
  /\ ppc[s] \in {"timer", "hist"}
  /\ IF cancelled[s]
     THEN UNCHANGED vars
     ELSE /\ dialog' = [dialog EXCEPT ![s] = IF ppc[s] = "hist" THEN "inpoll" ELSE "main"]
          /\ UNCHANGED <<historyFile, clock, channel, wpc, upload_state, sent,
                         cancelled, current_progress, window, ppc,
                         history_timestamp, event, searches, deletes,
                         statusWrites, histVars, box>>

\* _on_cancel, from the answer on: yes sets the flag.  The dialog runs its
\* own event loop, so polls of the session may have run meanwhile.
ConfirmCancel(s, yes) ==
  /\ dialog[s] # "none"
  /\ dialog' = [dialog EXCEPT ![s] = "none"]
  /\ cancelled' = [cancelled EXCEPT ![s] = IF yes THEN TRUE ELSE @]
  /\ UNCHANGED <<historyFile, clock, channel, wpc, upload_state, sent,
                 current_progress, window, ppc, history_timestamp, event,
                 searches, deletes, statusWrites, histVars, box>>

\* ------------------------------------------------------- check_upload

\* if upload_state['progress'] > 0: progress_window.update_progress(...)
PollShow(s) ==
  /\ ppc[s] = "timer"
  /\ IF upload_state[s].progress > 0
     THEN /\ current_progress' = [current_progress EXCEPT ![s] = upload_state[s].progress]
          /\ ppc' = [ppc EXCEPT ![s] = "hist"]
     ELSE /\ ppc' = [ppc EXCEPT ![s] = "test"]
          /\ UNCHANGED current_progress
  /\ UNCHANGED <<historyFile, clock, channel, wpc, upload_state, sent,
                 cancelled, window, dialog, history_timestamp, event,
                 searches, deletes, statusWrites, histVars, box>>

ProgressUpdates(progress) == [progress |-> progress]

\* update_history_entry(history_timestamp, {'progress': ...})
PollHist(s) ==
  /\ ppc[s] = "hist"
  /\ dialog[s] # "inpoll"
  /\ historyFile' = update_history_entry(historyFile, history_timestamp[s],
                       ProgressUpdates(upload_state[s].progress)).file
  /\ ppc' = [ppc EXCEPT ![s] = "test"]
  /\ UNCHANGED <<clock, channel, wpc, upload_state, sent, cancelled,
                 current_progress, window, dialog, history_timestamp, event,
                 searches, deletes, statusWrites, histVars, box>>

\* what _find_partial_upload_video_id can return: None (nothing listed
\* matches, or the search raised) or a listed video matching the request
FindResults == {NoId} \cup {channel[i] : i \in DOMAIN channel}

OnChannel(id) == \E i \in DOMAIN channel : channel[i] = id

Remove(seq, id) == SelectSeq(seq, LAMBDA x : x # id)

DeletedUpdates(progress) ==
  [status |-> "cancelled", progress |-> progress,
   note |-> "Video deleted from YouTube"]

\* mutant: a failed delete is recorded as a failed upload
DeleteFailedAsFailed(progress, video_id, del_error) ==
  [status |-> "failed", progress |-> progress, video_id |-> video_id,
   note |-> <<"Failed to delete video: ", ErrorStr(del_error)>>]

DeleteFailedUpdates(progress, video_id, del_error) ==
  [status |-> "cancelled", progress |-> progress, video_id |-> video_id,
   note |-> <<"Failed to delete video: ", ErrorStr(del_error)>>]

NotFoundUpdates(progress) ==
  [status |-> "cancelled", progress |-> progress]

\* mutant: the error message is left out of the update
FailedUpdatesNoMessage(error) ==
  [status |-> "failed"]

FailedUpdates(error) ==
  [status |-> "failed", error |-> ErrorStr(error)]

\* mutant: the watch URL is left out of the update
CompletedUpdatesNoUrl(video_id) ==
  [status |-> "completed", progress |-> 100, video_id |-> video_id]

CompletedUpdates(video_id) ==
  [status |-> "completed", progress |-> 100, video_url |-> VideoUrl(video_id),
   video_id |-> video_id]

\* the terminal update_history_entry call and the message box after it
Report(s, updates, message) ==
  LET wr == update_history_entry(historyFile, history_timestamp[s], updates)
  IN /\ historyFile' = wr.file
     /\ statusWrites' = [statusWrites EXCEPT ![s] = IF wr.ret THEN @ + 1 ELSE @]
     /\ event' = [event EXCEPT ![s] = message]

\* mutant: the search runs even when the worker recorded a video_id
ResolveIdsAlwaysSearch(s) == FindResults

\* the id the cancellation branch works on: the worker's video_id, else the
\* result of the search
ResolveIds(s) ==
  IF upload_state[s].video_id # NoId THEN {upload_state[s].video_id} ELSE FindResults

\* if progress_window.is_cancelled(): ... return
HandleCancelled(s) ==
  \E video_id \in ResolveIds(s) :
    /\ searches' = [searches EXCEPT ![s] = IF upload_state[s].video_id # NoId THEN @ ELSE @ + 1]
    /\ IF video_id # NoId
       THEN /\ deletes' = [deletes EXCEPT ![s] = Append(@, video_id)]
            /\ \/ /\ OnChannel(video_id)
                  /\ channel' = Remove(channel, video_id)
                  /\ Report(s, DeletedUpdates(upload_state[s].progress), "cancelled_deleted")
               \/ \E del_error \in Errors :
                    /\ UNCHANGED channel
                    /\ Report(s, DeleteFailedUpdates(upload_state[s].progress, video_id, del_error),
                              "cancelled_delete_failed")
       ELSE /\ UNCHANGED <<deletes, channel>>
            /\ Report(s, NotFoundUpdates(upload_state[s].progress), "cancelled_not_found")

\* mutant: the error branch shows the message box and writes nothing
HandleErrorNoWrite(s) ==
  /\ event' = [event EXCEPT ![s] = "failed"]
  /\ UNCHANGED <<historyFile, statusWrites, searches, deletes, channel>>

\* mutant: the error branch looks for the video on the channel
HandleErrorSearches(s) ==
  /\ Report(s, FailedUpdates(upload_state[s].error), "failed")
  /\ searches' = [searches EXCEPT ![s] = @ + 1]
  /\ UNCHANGED <<deletes, channel>>

\* if upload_state['error']: ... return
HandleError(s) ==
  /\ Report(s, FailedUpdates(upload_state[s].error), "failed")
  /\ UNCHANGED <<searches, deletes, channel>>

\* the success branch
HandleSuccess(s) ==
  /\ Report(s, CompletedUpdates(upload_state[s].response), "completed")
  /\ UNCHANGED <<searches, deletes, channel>>

\* mutant: the error is tested before the cancel flag
FinishErrorFirst(s) ==
  IF upload_state[s].error # NoError
  THEN HandleError(s)
  ELSE IF cancelled[s]
       THEN HandleCancelled(s)
       ELSE HandleSuccess(s)

\* the branch check_upload takes once done is set
Finish(s) ==
  IF cancelled[s]
  THEN HandleCancelled(s)
  ELSE IF upload_state[s].error # NoError
       THEN HandleError(s)
       ELSE HandleSuccess(s)

\* mutant: the poll is scheduled again after the terminal branch
PollTestReschedules(s) ==
  /\ ppc[s] = "test"
  /\ ppc' = [ppc EXCEPT ![s] = "timer"]
  /\ IF ~upload_state[s].done
     THEN UNCHANGED <<historyFile, channel, window, event, searches,
                      deletes, statusWrites>>
     ELSE /\ window' = [window EXCEPT ![s] = FALSE]
          /\ Finish(s)
  /\ UNCHANGED <<clock, wpc, upload_state, sent, cancelled, current_progress,
                 dialog, history_timestamp, histVars, box>>

\* if not upload_state['done']: poll again in 100 ms; else close the window
\* and finish
PollTest(s) ==
  /\ ppc[s] = "test"
  /\ IF ~upload_state[s].done
     THEN /\ ppc' = [ppc EXCEPT ![s] = "timer"]
          /\ UNCHANGED <<historyFile, channel, window, event, searches,
                         deletes, statusWrites>>
     ELSE /\ ppc' = [ppc EXCEPT ![s] = "stopped"]
          /\ window' = [window EXCEPT ![s] = FALSE]
          /\ Finish(s)
  /\ UNCHANGED <<clock, wpc, upload_state, sent, cancelled, current_progress,
                 dialog, history_timestamp, histVars, box>>

Poll(s) ==
  \/ PollShow(s)
  \/ PollHist(s)
  \/ PollTest(s)

\* ------------------------------------------------------ specification

Next ==
  \E s \in Sessions :
    \/ StartUpload(s)
    \/ WorkerCreate(s)
    \/ WorkerCheck(s)
    \/ WorkerChunk(s)
    \/ WorkerSetResponse(s)
    \/ WorkerSetDone(s)
    \/ OnCancel(s)
    \/ \E yes \in BOOLEAN : ConfirmCancel(s, yes)
    \/ PollShow(s)
    \/ PollHist(s)
    \/ PollTest(s)

Spec == Init /\ [][Next]_vars

MultiSpec == MultiInit /\ [][Next]_vars

\* The worker thread runs and its remote calls return or raise; an open
\* confirmation is answered; the Tk loop fires the pending poll timer, and a
\* poll suspended inside a confirmation resumes each time it is answered
\* (strong fairness: the poll is not starved by confirmations opened again
\* and again).
Fairness ==
  \A s \in Sessions :
    /\ WF_vars(Worker(s))
    /\ SF_vars(Poll(s))
    /\ WF_vars(\E yes \in BOOLEAN : ConfirmCancel(s, yes))

LiveSpec == Init /\ [][Next]_vars /\ Fairness

\* ------------------------------------------ the history store alone

\* Entries a stored log may hold: written by add_to_history, or without
\* uploaded_at (a log edited by hand)
SampleEntries ==
  {[uploaded_at |-> k, status |-> st, progress |-> 0] :
     k \in 1..MaxKeys, st \in {"uploading", "completed"}}
  \cup {[status |-> "uploading", progress |-> 0]}

SampleLogs ==
  UNION {[1..n -> SampleEntries] : n \in 0..MaxEntries}

SampleUpdates ==
  {ProgressUpdates(60), NotFoundUpdates(30)}

\* a stored log, a missing file or an unreadable one; the clock is later
\* than every stored timestamp
HistInit ==
  /\ historyFile \in {AbsentFile, CorruptFile, UnreadableFile}
                      \cup {save_upload_history(h) : h \in SampleLogs}
  /\ channel = <<>>
  /\ SessionInit
  /\ loaded = <<>>
  /\ FormIdle
  /\ SlotIdle
  /\ FindIdle
  /\ uploads = 0
  /\ histRet = FALSE
  /\ histCall = NoCall

\* add_to_history(entry), the entry with or without uploaded_at
HistAdd(entry) ==
  /\ Len(load_upload_history(historyFile)) <= MaxEntries
  /\ clock = 1            \* one append in a run
  /\ LET added == add_to_history(historyFile, entry, MaxKeys + clock)
     IN /\ historyFile' = added.file
        /\ histRet' = added.ret
        /\ histCall' = [op |-> "add", key |-> added.ret, given |-> entry,
                        found |-> historyFile.kind]
  /\ clock' = clock + 1
  /\ loaded' = <<>>
  /\ UNCHANGED <<channel, wpc, upload_state, sent, cancelled, current_progress,
                 window, dialog, ppc, history_timestamp, event, searches,
                 deletes, statusWrites, uploads, form, box,
                 slotVars, findVars>>

\* update_history_entry(uploaded_at, updates)
HistUpdate(uploaded_at, updates) ==
  /\ LET updated == update_history_entry(historyFile, uploaded_at, updates)
     IN /\ historyFile' = updated.file
        /\ histRet' = updated.ret
  /\ histCall' = [op |-> "update", key |-> uploaded_at, given |-> updates,
                  found |-> historyFile.kind]
  /\ loaded' = <<>>
  /\ UNCHANGED <<clock, channel, wpc, upload_state, sent, cancelled,
                 current_progress, window, dialog, ppc, history_timestamp,
                 event, searches, deletes, statusWrites, uploads, form, box,
                 slotVars, findVars>>

\* load_upload_history()
HistLoad ==
  /\ loaded' = load_upload_history(historyFile)
  /\ histRet' = TRUE
  /\ histCall' = [op |-> "load", key |-> 0, given |-> <<>>,
                  found |-> historyFile.kind]
  /\ UNCHANGED <<historyFile, clock, channel, wpc, upload_state, sent,
                 cancelled, current_progress, window, dialog, ppc,
                 history_timestamp, event, searches, deletes, statusWrites,
                 uploads, form, box, slotVars, findVars>>

HistNext ==
  \/ HistLoad
  \/ \E entry \in SampleEntries : HistAdd(entry)
  \/ \E k \in 1..(MaxKeys + 2), updates \in SampleUpdates :
       HistUpdate(k, updates)

HistSpec == HistInit /\ [][HistNext]_vars

\* ------------------------------------- appends to an empty store

\* the store holds no entry: no file yet, or a saved empty list
AppendInit ==
  /\ historyFile \in {AbsentFile, save_upload_history(<<>>)}
  /\ channel = <<>>
  /\ SessionInit
  /\ loaded = <<>>
  /\ FormIdle
  /\ SlotIdle
  /\ FindIdle
  /\ uploads = 0
  /\ histRet = FALSE
  /\ histCall = NoCall

\* add_to_history(entry) with an entry that carries no uploaded_at, as
\* _upload calls it; the clock advances between two calls
AppendEntry(entry) ==
  /\ clock <= MaxAppends
  /\ LET added == add_to_history(historyFile, entry, clock)
     IN /\ historyFile' = added.file
        /\ histRet' = added.ret
        /\ histCall' = [op |-> "add", key |-> added.ret, given |-> entry,
                        found |-> historyFile.kind]
  /\ clock' = clock + 1
  /\ loaded' = <<>>
  /\ UNCHANGED <<channel, wpc, upload_state, sent, cancelled, current_progress,
                 window, dialog, ppc, history_timestamp, event, searches,
                 deletes, statusWrites, uploads, form, box,
                 slotVars, findVars>>

AppendNext == AppendEntry(NewEntry)

AppendSpec == AppendInit /\ [][AppendNext]_vars

\* ------------------------------------ the slot calculation alone

JunFirst ==
  [year |-> 2025, month |-> 6, day |-> 1, hour |-> 9, minute |-> 0, second |-> 0]
JunFifth ==
  [year |-> 2025, month |-> 6, day |-> 5, hour |-> 9, minute |-> 0, second |-> 0]
YearEnd ==
  [year |-> 2025, month |-> 12, day |-> 31, hour |-> 20, minute |-> 30, second |-> 0]
LeapEve ==
  [year |-> 2024, month |-> 2, day |-> 28, hour |-> 23, minute |-> 0, second |-> 30]

\* videos of the channel: scheduled ones (two of them for the same
\* instant) and a published one, which has no publishAt
SampleVideos ==
  {[title |-> "A", publishAt |-> [utc |-> JunFirst, frac |-> ""]],
   [title |-> "B", publishAt |-> [utc |-> JunFifth, frac |-> ".000"]],
   [title |-> "C", publishAt |-> [utc |-> YearEnd, frac |-> ""]],
   [title |-> "D", publishAt |-> [utc |-> LeapEve, frac |-> ".000"]],
   [title |-> "E", publishAt |-> [utc |-> JunFifth, frac |-> ""]],
   [title |-> "P"]}

\* what the remote answers: authentication fails, a call raises, no
\* channel, an empty uploads playlist, or the videos of the playlist
SampleResponses ==
  {[kind |-> k, items |-> <<>>] :
     k \in {"auth_failed", "error", "no_channel", "no_videos"}}
  \cup {[kind |-> "videos", items |-> items] :
          items \in UNION {[1..n -> SampleVideos] : n \in 0..MaxVideos}}

\* -time.timezone or -time.altzone: US Pacific, UTC, India
SampleOffsets == {-28800, 0, 19800}

\* the fields before the call: as constructed, the last minutes of a
\* year, the last day of February in a leap year, and February 30
SampleSchedules ==
  {DefaultSchedule,
   set_schedule_datetime([year |-> 2025, month |-> 12, day |-> 31,
                          hour |-> 23, minute |-> 55, second |-> 0]),
   set_schedule_datetime([year |-> 2024, month |-> 2, day |-> 28,
                          hour |-> 0, minute |-> 5, second |-> 0]),
   [DefaultSchedule EXCEPT !.month_var = <<"0", "2">>, !.day_var = <<"3", "0">>]}

SlotInit ==
  /\ historyFile = AbsentFile
  /\ channel = <<>>
  /\ SessionInit
  /\ uploads = 0
  /\ histRet = FALSE
  /\ histCall = NoCall
  /\ loaded = <<>>
  /\ FormIdle
  /\ FindIdle
  /\ schedule \in SampleSchedules
  /\ slot_status_label = ""
  /\ scheduled_videos_cache = NoCache
  /\ view_schedule_btn = "disabled"
  /\ slotCall = NoSlotCall
  /\ dtCall = NoDtCall

\* _calculate_next_day_slot, run once
CalculateNextDaySlot ==
  /\ slotCall = NoSlotCall
  /\ \E response \in SampleResponses, utc_offset_seconds \in SampleOffsets :
       LET out == calculate_next_day_slot(schedule, response, utc_offset_seconds)
       IN /\ schedule' = out.schedule
          /\ slot_status_label' = out.label
          /\ scheduled_videos_cache' = out.cache
          /\ view_schedule_btn' = out.view_schedule_btn
          /\ slotCall' = [response |-> response,
                          utc_offset_seconds |-> utc_offset_seconds,
                          selected |-> schedule]
  /\ UNCHANGED <<historyFile, clock, channel, wpc, upload_state, sent,
                 cancelled, current_progress, window, dialog, ppc,
                 history_timestamp, event, searches, deletes, statusWrites,
                 uploads, histRet, histCall, loaded, form, box, findVars,
                 dtCall>>

SlotNext == CalculateNextDaySlot

SlotSpec == SlotInit /\ [][SlotNext]_vars

\* ------------------------- slot calculations and form resets in a row

\* what the remote answers to a calculation: a failure, an empty channel,
\* or a playlist with no scheduled video, one, or several in either order
CacheResponses ==
  {[kind |-> k, items |-> <<>>] : k \in {"auth_failed", "error", "no_videos"}}
  \cup {[kind |-> "videos", items |-> items] :
          items \in {<<[title |-> "P"]>>,
                     <<[title |-> "A", publishAt |-> [utc |-> JunFirst, frac |-> ""]]>>,
                     <<[title |-> "B", publishAt |-> [utc |-> JunFifth, frac |-> ".000"]],
                       [title |-> "A", publishAt |-> [utc |-> JunFirst, frac |-> ""]]>>,
                     <<[title |-> "A", publishAt |-> [utc |-> JunFirst, frac |-> ""]],
                       [title |-> "P"],
                       [title |-> "C", publishAt |-> [utc |-> YearEnd, frac |-> ""]]>>}}

\* US Pacific and India
CacheOffsets == {-28800, 19800}

Searching == "Searching for scheduled videos..."

CacheInit ==
  /\ historyFile = AbsentFile
  /\ channel = <<>>
  /\ SessionInit
  /\ uploads = 0
  /\ histRet = FALSE
  /\ histCall = NoCall
  /\ loaded = <<>>
  /\ FormIdle
  /\ FindIdle
  /\ SlotIdle

\* mutant: the calculation starts without dropping the cache
SlotBeginKeepsCache ==
  /\ slot_status_label # Searching
  /\ clock <= MaxOps
  /\ slot_status_label' = Searching
  /\ view_schedule_btn' = "disabled"
  /\ UNCHANGED <<historyFile, clock, channel, wpc, upload_state, sent,
                 cancelled, current_progress, window, dialog, ppc,
                 history_timestamp, event, searches, deletes, statusWrites,
                 uploads, histRet, histCall, loaded, form, box, findVars,
                 schedule, scheduled_videos_cache, slotCall, dtCall>>

\* _calculate_next_day_slot up to self.root.update(): the label reads
\* Searching, the button is disabled and the cache is dropped; the window
\* is redrawn before the remote is asked
SlotBegin ==
  /\ slot_status_label # Searching
  /\ clock <= MaxOps
  /\ slot_status_label' = Searching
  /\ view_schedule_btn' = "disabled"
  /\ scheduled_videos_cache' = NoCache
  /\ UNCHANGED <<historyFile, clock, channel, wpc, upload_state, sent,
                 cancelled, current_progress, window, dialog, ppc,
                 history_timestamp, event, searches, deletes, statusWrites,
                 uploads, histRet, histCall, loaded, form, box, findVars,
                 schedule, slotCall, dtCall>>

\* _calculate_next_day_slot from the authentication on: the cache and the
\* button are written only where the handler stores a schedule
SlotFinish ==
  /\ slot_status_label = Searching
  /\ \E response \in CacheResponses, utc_offset_seconds \in CacheOffsets :
       LET out == calculate_next_day_slot(schedule, response, utc_offset_seconds)
       IN /\ schedule' = out.schedule
          /\ slot_status_label' = out.label
          /\ scheduled_videos_cache' =
               IF out.cache = NoCache THEN scheduled_videos_cache ELSE out.cache
          /\ view_schedule_btn' =
               IF out.cache = NoCache THEN view_schedule_btn ELSE out.view_schedule_btn
          /\ slotCall' = [response |-> response,
                          utc_offset_seconds |-> utc_offset_seconds,
                          selected |-> schedule]
  /\ clock' = clock + 1
  /\ UNCHANGED <<historyFile, channel, wpc, upload_state, sent,
                 cancelled, current_progress, window, dialog, ppc,
                 history_timestamp, event, searches, deletes, statusWrites,
                 uploads, histRet, histCall, loaded, form, box, findVars,
                 dtCall>>

\* _reset_form, run between two calculations
ResetForm ==
  /\ slot_status_label # Searching
  /\ clock <= MaxOps
  /\ LET out == reset_form(Now(clock))
     IN /\ form' = out.form
        /\ schedule' = out.schedule
        /\ scheduled_videos_cache' = out.cache
        /\ view_schedule_btn' = out.view_schedule_btn
        /\ slot_status_label' = out.label
  /\ clock' = clock + 1
  /\ UNCHANGED <<historyFile, channel, wpc, upload_state, sent,
                 cancelled, current_progress, window, dialog, ppc,
                 history_timestamp, event, searches, deletes, statusWrites,
                 uploads, histRet, histCall, loaded, box, findVars, slotCall,
                 dtCall>>

CacheNext ==
  \/ SlotBegin
  \/ SlotFinish
  \/ ResetForm

CacheSpec == CacheInit /\ [][CacheNext]_vars

\* -------------------- _set_schedule_datetime, then _get_scheduled_datetime

\* the datetimes handed to _set_schedule_datetime: every minute of the
\* day after the constructor's, of a leap day, of the last day of a year
\* and of the first day of the next
SampleDateTimes ==
  {[year |-> d[1], month |-> d[2], day |-> d[3], hour |-> h, minute |-> m, second |-> 0] :
     d \in {<<2025, 6, 2>>, <<2024, 2, 29>>, <<2025, 12, 31>>, <<2026, 1, 1>>},
     h \in 0..23, m \in 0..59}

RoundInit ==
  /\ historyFile = AbsentFile
  /\ channel = <<>>
  /\ SessionInit
  /\ uploads = 0
  /\ histRet = FALSE
  /\ histCall = NoCall
  /\ loaded = <<>>
  /\ FormIdle
  /\ FindIdle
  /\ schedule = DefaultSchedule
  /\ slot_status_label = ""
  /\ scheduled_videos_cache = NoCache
  /\ view_schedule_btn = "disabled"
  /\ slotCall = NoSlotCall
  /\ dtCall \in {[step |-> "given", given |-> dt, returned |-> NoneDateTime] :
                   dt \in SampleDateTimes}

\* _set_schedule_datetime(dt)
SetSchedule ==
  /\ dtCall.step = "given"
  /\ schedule' = set_schedule_datetime(dtCall.given)
  /\ dtCall' = [dtCall EXCEPT !.step = "set"]
  /\ UNCHANGED <<historyFile, clock, channel, wpc, upload_state, sent,
                 cancelled, current_progress, window, dialog, ppc,
                 history_timestamp, event, searches, deletes, statusWrites,
                 uploads, histRet, histCall, loaded, form, box, findVars,
                 slot_status_label, scheduled_videos_cache, view_schedule_btn,
                 slotCall>>

\* _get_scheduled_datetime()
GetSchedule ==
  /\ dtCall.step = "set"
  /\ dtCall' = [dtCall EXCEPT !.step = "got",
                              !.returned = get_scheduled_datetime(schedule)]
  /\ UNCHANGED <<historyFile, clock, channel, wpc, upload_state, sent,
                 cancelled, current_progress, window, dialog, ppc,
                 history_timestamp, event, searches, deletes, statusWrites,
                 uploads, histRet, histCall, loaded, form, box, findVars,
                 schedule, slot_status_label, scheduled_videos_cache,
                 view_schedule_btn, slotCall>>

RoundNext ==
  \/ SetSchedule
  \/ GetSchedule

RoundSpec == RoundInit /\ [][RoundNext]_vars

\* ------------------------------------------- the search alone

\* descriptions: 120 characters, 130 characters with the same first 100,
\* 120 characters that differ in the 100th, and a short one
LongText == Rep("a", DescriptionPrefix) \o Rep("b", 20)
LongerSameStart == Rep("a", DescriptionPrefix) \o Rep("c", 30)
DiffersAtLast == Rep("a", DescriptionPrefix - 1) \o <<"x">> \o Rep("b", 20)
ShortText == <<"h", "i">>

\* the text _datetime_to_iso8601 produces for the request
RequestPublishAt == [utc |-> JunFirst, frac |-> ".000"]

\* the items search().list may return in a given position: listed by
\* videos().list with a publishAt text or without one, not listed, or
\* without a videoId
SampleItems(id) ==
  {[videoId |-> id, title |-> t, description |-> d, listed |-> TRUE, publishAt |-> p] :
     t \in {"clip", "other"},
     d \in {ShortText, LongText, LongerSameStart, DiffersAtLast},
     p \in {[utc |-> JunFirst, frac |-> ""], [utc |-> JunFirst, frac |-> ".000"],
            [utc |-> JunFifth, frac |-> ""], EmptyText}}
  \cup {[videoId |-> id, title |-> t, description |-> d, listed |-> FALSE,
         publishAt |-> EmptyText] :
          t \in {"clip", "other"},
          d \in {ShortText, LongText, LongerSameStart, DiffersAtLast}}
  \cup {[videoId |-> NoId, title |-> "clip", description |-> LongText,
         listed |-> TRUE, publishAt |-> [utc |-> JunFirst, frac |-> ""]]}

\* the answers of search().list: up to MaxFound items, most recent first
SampleItemLists ==
  UNION {{items \in [1..n -> UNION {SampleItems(id) : id \in 1..n}] :
            \A i \in 1..n : items[i] \in SampleItems(i)} : n \in 0..MaxFound}

\* searches for the request's title, with or without a description and a
\* publish time; a remote call may raise
SampleCalls ==
  {[raises |-> FALSE, items |-> items, title |-> "clip", description |-> d,
    publish_at |-> p] :
     items \in SampleItemLists, d \in {<<>>, LongText},
     p \in {NoPublishAt, RequestPublishAt}}
  \cup {[raises |-> TRUE, items |-> items, title |-> "clip",
         description |-> LongText, publish_at |-> NoPublishAt] :
          items \in {l \in SampleItemLists : Len(l) <= 1}}

FindInit ==
  /\ historyFile = AbsentFile
  /\ channel = <<>>
  /\ SessionInit
  /\ uploads = 0
  /\ histRet = FALSE
  /\ histCall = NoCall
  /\ loaded = <<>>
  /\ FormIdle
  /\ SlotIdle
  /\ findCall \in SampleCalls
  /\ findRet = NoFindRet

\* _find_partial_upload_video_id(title, description, publish_at)
FindPartialUpload ==
  /\ ~findRet.called
  /\ findRet' = [called |-> TRUE, video_id |-> find_partial_upload_video_id(findCall)]
  /\ UNCHANGED <<historyFile, clock, channel, wpc, upload_state, sent,
                 cancelled, current_progress, window, dialog, ppc,
                 history_timestamp, event, searches, deletes, statusWrites,
                 uploads, histRet, histCall, loaded, form, box, slotVars,
                 findCall>>

FindNext == FindPartialUpload

FindSpec == FindInit /\ [][FindNext]_vars

\* ------------------------------------------- the Upload button alone

\* what the user may have typed before pressing Upload: no path, blanks, a video that exists, one
\* that does not, a file that is no video; no title, blanks, a title, titles
\* of TitleLimit and TitleLimit + 1 characters, the former also in blanks
SampleForms ==
  {[video_path |-> path, title |-> title, privacy |-> privacy] :
     path \in {<<>>, <<" ">>, <<"a", ".", "m", "p", "4">>,
               <<"b", ".", "m", "p", "4">>, <<"a", ".", "t", "x", "t">>},
     title \in {<<>>, <<" ", " ">>, <<"c", "l", "i", "p">>,
                Rep("t", TitleLimit), Rep("t", TitleLimit + 1),
                <<" ">> \o Rep("t", TitleLimit) \o <<" ">>},
     privacy \in {"private", "public", "scheduled"}}

\* the schedule row: tomorrow noon, yesterday noon, the minute the clock
\* first reads, and February 30
SampleFormSchedules ==
  {DefaultSchedule,
   set_schedule_datetime(AddDays(Today, -1)),
   set_schedule_datetime(Now(1)),
   [DefaultSchedule EXCEPT !.month_var = <<"0", "2">>, !.day_var = <<"3", "0">>]}

FormInit ==
  /\ historyFile \in {AbsentFile, save_upload_history(<<>>)}
  /\ channel = <<>>
  /\ SessionInit
  /\ uploads = 1
  /\ histRet = FALSE
  /\ histCall = NoCall
  /\ loaded = <<>>
  /\ FindIdle
  /\ form \in SampleForms
  /\ box = <<>>
  /\ schedule \in SampleFormSchedules
  /\ slot_status_label = ""
  /\ scheduled_videos_cache = NoCache
  /\ view_schedule_btn = "disabled"
  /\ slotCall = NoSlotCall
  /\ dtCall = NoDtCall

\* _upload when _validate_inputs returns False: it returns at once
UploadRejected ==
  /\ \E answer \in BOOLEAN :
       LET valid == validate_inputs(form, schedule, Now(clock), answer)
       IN /\ ~valid.ok
          /\ box' = valid.boxes
  /\ UNCHANGED <<historyFile, clock, channel, wpc, upload_state, sent,
                 cancelled, current_progress, window, dialog, ppc,
                 history_timestamp, event, searches, deletes, statusWrites,
                 histVars>>

\* _upload when the inputs are valid and get_authenticated_service returns
\* None: it returns after the authentication attempt
UploadNotAuthenticated ==
  /\ \E answer \in BOOLEAN :
       LET valid == validate_inputs(form, schedule, Now(clock), answer)
       IN /\ valid.ok
          /\ box' = valid.boxes
  /\ UNCHANGED <<historyFile, clock, channel, wpc, upload_state, sent,
                 cancelled, current_progress, window, dialog, ppc,
                 history_timestamp, event, searches, deletes, statusWrites,
                 histVars>>

FormNext ==
  \/ UploadRejected
  \/ UploadNotAuthenticated
  \/ \E s \in Sessions : StartUpload(s)

FormSpec == FormInit /\ [][FormNext]_vars

\* -------------------------------------------------------------- claims

Started(s) == wpc[s] # "none"

\* the session's history entry
Entry(s) == EntryOf(historyFile, history_timestamp[s])

TerminalStatus == {"completed", "cancelled", "failed"}

\* the poll that observes done and runs the terminal branch
TerminalStep(s) == ppc[s] = "test" /\ ppc'[s] = "stopped"

\* C1: under fairness of the worker, the poll and the confirmation dialog,
\* every started session reaches a terminal outcome (a message box shown
\* and a terminal status stored), and an outcome once reached never changes.
C1_ReachesOneTerminalOutcome ==
  /\ \A s \in Sessions :
       Started(s) ~> (/\ ppc[s] = "stopped"
                      /\ event[s] # "none"
                      /\ Entry(s)["status"] \in TerminalStatus)
  /\ [][\A s \in Sessions :
          event[s] # "none" =>
            /\ event'[s] = event[s]
            /\ Entry(s)'["status"] = Entry(s)["status"]]_vars

C1_Witness ==
  \E s \in Sessions :
    /\ ppc[s] = "stopped"
    /\ upload_state[s].done
    /\ event[s] # "none"
    /\ sent[s] = MaxChunks

\* C2: the progress shown in the window and stored in the history entry
\* never decreases from one poll to the next, until the terminal poll,
\* whatever progress values next_chunk returns.
C2_ProgressNeverRegresses ==
  [][\A s \in Sessions :
       (Started(s) /\ ppc'[s] # "stopped") =>
         /\ current_progress'[s] >= current_progress[s]
         /\ Entry(s)'["progress"] >= Entry(s)["progress"]]_vars

\* C3: a session cancelled before any next_chunk call was made ends
\* cancelled with no delete attempted and the caller told that no remote
\* object was found.
C3_NoDeleteBeforeFirstChunk ==
  \A s \in Sessions :
    (ppc[s] = "stopped" /\ sent[s] = 0 /\ Entry(s)["status"] = "cancelled") =>
      /\ deletes[s] = <<>>
      /\ event[s] = "cancelled_not_found"

\* C4: when the terminal poll finds the flag set and a video_id recorded by
\* the worker, it calls delete with exactly that id and runs no search.
C4_DeleteExactId ==
  [][\A s \in Sessions :
       (TerminalStep(s) /\ cancelled[s] /\ upload_state[s].video_id # NoId) =>
         /\ deletes'[s] = <<upload_state[s].video_id>>
         /\ searches'[s] = 0]_vars

C4_Witness ==
  \E s \in Sessions :
    /\ ppc[s] = "stopped"
    /\ upload_state[s].response = VideoId(s)
    /\ cancelled[s]
    /\ deletes[s] = <<VideoId(s)>>
    /\ searches[s] = 0
    /\ Entry(s)["status"] = "cancelled"

\* C5: a session's entry has status uploading and no status update until
\* the poll that observes done; that poll makes exactly one status update,
\* to a terminal status, and stops; afterwards the poll is never scheduled
\* again and the entry is never written again.
C5_OneTerminalUpdate ==
  /\ [](\A s \in Sessions :
          Started(s) =>
            IF ppc[s] = "stopped"
            THEN statusWrites[s] = 1 /\ Entry(s)["status"] \in TerminalStatus
            ELSE statusWrites[s] = 0 /\ Entry(s)["status"] = "uploading")
  /\ [][\A s \in Sessions :
          ppc[s] = "stopped" =>
            /\ ppc'[s] = "stopped"
            /\ statusWrites'[s] = statusWrites[s]
            /\ Entry(s)' = Entry(s)]_vars

C5_Witness ==
  \E s \in Sessions :
    /\ ppc[s] = "stopped"
    /\ statusWrites[s] = 1
    /\ Entry(s)["status"] = "completed"
    /\ Entry(s)["progress"] = 100

\* C6 as stated: a session whose insert or next_chunk raised ends with
\* status failed, the error's message stored and the error box shown.
C6_ErrorAlwaysFailed ==
  \A s \in Sessions :
    (ppc[s] = "stopped" /\ upload_state[s].error # NoError) =>
      /\ Entry(s)["status"] = "failed"
      /\ "error" \in DOMAIN Entry(s)
      /\ Entry(s)["error"] = ErrorStr(upload_state[s].error)
      /\ event[s] = "failed"

\* C6 amended: when insert or next_chunk raised, the terminal poll stores
\* status failed with the error's message and shows the error box if the
\* cancel flag is unset at that poll; if the flag is set it stores status
\* cancelled and no error.
C6_ErrorFailedUnlessCancelled ==
  [][\A s \in Sessions :
       (TerminalStep(s) /\ upload_state[s].error # NoError) =>
         IF cancelled[s]
         THEN /\ Entry(s)'["status"] = "cancelled"
              /\ "error" \notin DOMAIN Entry(s)'
         ELSE /\ Entry(s)' = DictUpdate(Entry(s),
                               [status |-> "failed",
                                error |-> ErrorStr(upload_state[s].error)])
              /\ event'[s] = "failed"]_vars

C6_Witness ==
  \E s \in Sessions :
    /\ ppc[s] = "stopped"
    /\ upload_state[s].error = "HttpError"
    /\ ~cancelled[s]
    /\ event[s] = "failed"
    /\ Entry(s)["status"] = "failed"
    /\ Entry(s)["error"] = "<HttpError 403 quotaExceeded>"

\* C7: a cancelled session whose delete failed has status cancelled, the
\* id the delete was called with and a note recording the failure.
C7_DeleteFailureStaysCancelled ==
  \A s \in Sessions :
    event[s] = "cancelled_delete_failed" =>
      /\ Entry(s)["status"] = "cancelled"
      /\ Len(deletes[s]) = 1
      /\ "video_id" \in DOMAIN Entry(s)
      /\ Entry(s)["video_id"] = deletes[s][1]
      /\ "note" \in DOMAIN Entry(s)
      /\ \E e \in Errors :
           Entry(s)["note"] = <<"Failed to delete video: ", ErrorStr(e)>>

C7_Witness ==
  \E s \in Sessions :
    /\ event[s] = "cancelled_delete_failed"
    /\ searches[s] = 1
    /\ deletes[s] = <<OldVideo>>
    /\ OnChannel(OldVideo)

\* C8: once the terminal poll has reported completed, a cancel confirmed
\* afterwards changes nothing: the poll stays stopped, the entry stays
\* completed, no search and no delete is issued.
C8_CancelAfterCompletion ==
  \A s \in Sessions :
    (event[s] = "completed" /\ cancelled[s]) =>
      /\ ppc[s] = "stopped"
      /\ Entry(s)["status"] = "completed"
      /\ searches[s] = 0
      /\ deletes[s] = <<>>

C8_Witness ==
  \E s \in Sessions :
    /\ event[s] = "completed"
    /\ cancelled[s]
    /\ dialog[s] = "none"

\* C9: the flag, once true, stays true, and _on_cancel called with the
\* flag set changes nothing (no confirmation is opened).
C9_CancelOneWayIdempotent ==
  [][\A s \in Sessions :
       cancelled[s] =>
         /\ cancelled'[s]
         /\ dialog'[s] = "none"
         /\ OnCancel(s) => UNCHANGED vars]_vars

C9_Witness ==
  \E s \in Sessions :
    /\ cancelled[s]
    /\ window[s]
    /\ ppc[s] = "timer"
    /\ ~upload_state[s].done

\* C10: update_history_entry with a key no entry has returns False and
\* leaves the file as it was.
C10_UpdateUnknownKey ==
  [][(histCall'.op = "update" /\ ~HasEntry(historyFile, histCall'.key)) =>
       /\ histRet' = FALSE
       /\ historyFile' = historyFile]_vars

C10_Witness ==
  /\ histCall.op = "update"
  /\ histRet = FALSE
  /\ historyFile.kind = "json"
  /\ Len(historyFile.entries) = MaxEntries
  /\ ~HasEntry(historyFile, histCall.key)

\* C11: after n appends to an initially empty store the store holds exactly
\* min(n, 100) entries, the i-th of them being the i-th most recent append
\* (the oldest appends are the ones evicted).
C11_AppendKeepsNewestHundred ==
  LET n == clock - 1
      history == load_upload_history(historyFile)
  IN /\ Len(history) = (IF n < 100 THEN n ELSE 100)
     /\ \A i \in 1..Len(history) :
          history[i] = DictUpdate(NewEntry, [uploaded_at |-> n + 1 - i])

C11_Witness ==
  /\ clock - 1 = 105
  /\ Len(load_upload_history(historyFile)) = 100
  /\ load_upload_history(historyFile)[1]["uploaded_at"] = 105
  /\ load_upload_history(historyFile)[100]["uploaded_at"] = 6

\* C12: load_upload_history returns the empty list when the file is absent,
\* cannot be opened or does not parse as JSON; otherwise it returns the
\* stored entries in the stored (most-recent-first) order.  It changes
\* nothing.
C12_LoadEmptyOrStored ==
  [][histCall'.op = "load" =>
       /\ historyFile.kind \in {"absent", "unreadable", "corrupt"} => loaded' = <<>>
       /\ historyFile.kind = "json" =>
            /\ Len(loaded') = Len(historyFile.entries)
            /\ \A i \in 1..Len(loaded') : loaded'[i] = historyFile.entries[i]
       /\ historyFile' = historyFile]_vars

C12_Witness ==
  /\ histCall.op = "load"
  /\ historyFile = CorruptFile
  /\ loaded = <<>>

\* the calendar day after dt's, at the same time of day
NextCalendarDay(dt) ==
  IF dt.day < DaysInMonth(dt.year, dt.month) THEN [dt EXCEPT !.day = @ + 1]
  ELSE IF dt.month < 12 THEN [dt EXCEPT !.month = @ + 1, !.day = 1]
  ELSE [dt EXCEPT !.year = @ + 1, !.month = 1, !.day = 1]

\* the date and time the schedule fields read, on a 12-hour clock
ShownDateTime(fields) ==
  [year |-> ParseInt(fields.year_var), month |-> ParseInt(fields.month_var),
   day |-> ParseInt(fields.day_var),
   hour |-> (ParseInt(fields.hour_var) % 12) + (IF fields.ampm_var = "PM" THEN 12 ELSE 0),
   minute |-> ParseInt(fields.minute_var), second |-> 0]

\* the fields read a date of the calendar
ShowsDate(fields) ==
  /\ ParseInt(fields.hour_var) \in 1..12
  /\ fields.ampm_var \in {"AM", "PM"}
  /\ ParseInt(fields.month_var) \in 1..12
  /\ ParseInt(fields.day_var) \in
       1..DaysInMonth(ParseInt(fields.year_var), ParseInt(fields.month_var))

\* the fields read dt, to the minute
Shows(fields, dt) ==
  /\ ShowsDate(fields)
  /\ ShownDateTime(fields) = [dt EXCEPT !.second = 0]

SlotCalled == slotCall.response.kind # "none"

NoneScheduled(items) == \A i \in 1..Len(items) : "publishAt" \notin DOMAIN items[i]

\* C13 as stated: when no scheduled item is retrieved, because the uploads
\* playlist is empty or because no video carries a publish time, the fields
\* are set to the selected time plus one day.
C13_FallbackAlsoOnEmptyChannel ==
  (/\ SlotCalled
   /\ ShowsDate(slotCall.selected)
   /\ \/ slotCall.response.kind = "no_videos"
      \/ slotCall.response.kind = "videos" /\ NoneScheduled(slotCall.response.items)) =>
    Shows(schedule, NextCalendarDay(ShownDateTime(slotCall.selected)))

\* C13 amended: when videos().list was called and none of the videos it
\* returned carries a publish time, the fields are set to the selected time
\* plus one day; when the uploads playlist is empty (or there is no
\* channel) the fields are left as they were.
C13_FallbackWhenNoneScheduled ==
  (SlotCalled /\ ShowsDate(slotCall.selected)) =>
    /\ (slotCall.response.kind = "videos" /\ NoneScheduled(slotCall.response.items)) =>
         /\ Shows(schedule, NextCalendarDay(ShownDateTime(slotCall.selected)))
         /\ scheduled_videos_cache = NoCache
    /\ slotCall.response.kind \in {"no_videos", "no_channel"} =>
         /\ schedule = slotCall.selected
         /\ scheduled_videos_cache = NoCache

C13_Witness ==
  /\ slotCall.response.kind = "videos"
  /\ Len(slotCall.response.items) = 2
  /\ NoneScheduled(slotCall.response.items)
  /\ slotCall.selected.month_var = <<"1", "2">>
  /\ slotCall.selected.day_var = <<"3", "1">>
  /\ slotCall.selected.ampm_var = "PM"
  /\ schedule = [month_var |-> <<"0", "1">>, day_var |-> <<"0", "1">>,
                 year_var |-> <<"2", "0", "2", "6">>, hour_var |-> <<"1", "1">>,
                 minute_var |-> <<"5", "5">>, ampm_var |-> "PM"]

\* C14: when some retrieved video carries a publish time, the fields are
\* set to the calendar day after the local time of the video with the
\* greatest UTC publish time, at the same time of day, and every
\* permutation of the retrieved list gives the same fields.
C14_DayAfterLatest ==
  (/\ SlotCalled
   /\ slotCall.response.kind = "videos"
   /\ ~NoneScheduled(slotCall.response.items)) =>
    LET items == slotCall.response.items
        dated == {i \in 1..Len(items) : "publishAt" \in DOMAIN items[i]}
        max == CHOOSE i \in dated :
                 \A j \in dated : DtLeq(items[j].publishAt.utc, items[i].publishAt.utc)
        local == AddSeconds(items[max].publishAt.utc, slotCall.utc_offset_seconds)
    IN /\ Shows(schedule, NextCalendarDay(local))
       /\ \A p \in Permutations(1..Len(items)) :
            calculate_next_day_slot(
              slotCall.selected,
              [kind |-> "videos", items |-> [i \in 1..Len(items) |-> items[p[i]]]],
              slotCall.utc_offset_seconds).schedule = schedule

C14_Witness ==
  /\ slotCall.response.kind = "videos"
  /\ Len(slotCall.response.items) = 3
  /\ slotCall.response.items[1].title = "C"
  /\ slotCall.response.items[2].title = "P"
  /\ slotCall.response.items[3].title = "B"
  /\ slotCall.utc_offset_seconds = 19800
  /\ schedule = [month_var |-> <<"0", "1">>, day_var |-> <<"0", "2">>,
                 year_var |-> <<"2", "0", "2", "6">>, hour_var |-> <<"0", "2">>,
                 minute_var |-> <<"0", "0">>, ampm_var |-> "AM"]

\* the item of the search's answer that carries the id
ItemWithId(id) ==
  findCall.items[CHOOSE i \in 1..Len(findCall.items) : findCall.items[i].videoId = id]

\* C15: the search returns an id only of an item whose title is the
\* requested title and whose description starts with the first 100
\* characters of the requested description; with no publish time to
\* compare, a first item with the requested title and a longer description
\* that agrees on those 100 characters is returned.
C15_TitleAndDescriptionPrefix ==
  findRet.called =>
    /\ findRet.video_id # NoId =>
         /\ \E i \in 1..Len(findCall.items) : findCall.items[i].videoId = findRet.video_id
         /\ ItemWithId(findRet.video_id).title = findCall.title
         /\ \A k \in 1..Len(findCall.description) :
              k <= 100 =>
                /\ k <= Len(ItemWithId(findRet.video_id).description)
                /\ ItemWithId(findRet.video_id).description[k] = findCall.description[k]
    /\ (/\ ~findCall.raises
        /\ findCall.publish_at = NoPublishAt
        /\ Len(findCall.items) > 0
        /\ findCall.items[1].title = findCall.title
        /\ Len(findCall.items[1].description) > Len(findCall.description)
        /\ \A k \in 1..Len(findCall.description) :
             k <= 100 => findCall.items[1].description[k] = findCall.description[k]) =>
         findRet.video_id = findCall.items[1].videoId

C15_Witness ==
  /\ findRet.called
  /\ findRet.video_id = 2
  /\ findCall.description = LongText
  /\ findCall.items[1].title = "other"
  /\ findCall.items[2].description = LongerSameStart

\* C16: with a publish time given, the search returns an id only of an
\* item that videos().list returned with a publishAt text equal to the
\* requested one up to the '.000' before the 'Z'.
C16_PublishTimeConfirmed ==
  (findRet.called /\ findCall.publish_at # NoPublishAt /\ findRet.video_id # NoId) =>
    /\ ItemWithId(findRet.video_id).listed
    /\ ItemWithId(findRet.video_id).publishAt # EmptyText
    /\ ItemWithId(findRet.video_id).publishAt.utc = findCall.publish_at.utc
    /\ ItemWithId(findRet.video_id).publishAt.frac \in {"", ".000"}

\* the text is empty or blank
Blank(text) == \A i \in 1..Len(text) : text[i] = " "

\* the number of characters from the first to the last that is no blank
InnerLength(text) ==
  LET inked == {i \in 1..Len(text) : text[i] # " "}
  IN IF inked = {} THEN 0
     ELSE (CHOOSE i \in inked : \A j \in inked : j <= i)
          - (CHOOSE i \in inked : \A j \in inked : i <= j) + 1

\* the inputs the claim lists as invalid: no file path, no title, a title
\* of more than 100 characters, a scheduled time that is not in the future
InvalidInputs ==
  \/ Blank(form.video_path)
  \/ Blank(form.title)
  \/ InnerLength(form.title) > 100
  \/ /\ form.privacy = "scheduled"
     /\ ShowsDate(schedule)
     /\ DtLeq(ShownDateTime(schedule), Now(clock))

\* C17: while the inputs are invalid no step, a press of Upload included,
\* creates a history entry, opens a progress window, starts a worker or a
\* poll, or reaches the remote.
C17_InvalidInputsStartNothing ==
  [][InvalidInputs =>
       /\ historyFile' = historyFile
       /\ history_timestamp' = history_timestamp
       /\ wpc' = wpc
       /\ ppc' = ppc
       /\ window' = window
       /\ channel' = channel
       /\ clock' = clock]_vars

C17_Witness ==
  /\ box = <<"title_too_long">>
  /\ form.title = Rep("t", 101)
  /\ form.video_path = <<"a", ".", "m", "p", "4">>
  /\ \A s \in Sessions : wpc[s] = "none"
  /\ historyFile = AbsentFile

\* the session's worker has not returned or its poll is pending
Active(s) ==
  \/ wpc[s] \notin {"none", "exit"}
  \/ ppc[s] \in {"timer", "hist", "test"}

\* C18: at most one session is active at any time.
C18_OneActiveSession ==
  \A s, r \in Sessions : (Active(s) /\ Active(r)) => s = r

\* C19: when next_chunk returned the response (the worker recorded its id)
\* and the flag is unset at the terminal poll, that poll shows the
\* completion dialog and stores status completed, progress 100, the id and
\* the watch URL made from the id; a completed entry holds exactly these.
C19_SuccessRecorded ==
  /\ [][\A s \in Sessions :
          (TerminalStep(s) /\ upload_state[s].video_id # NoId /\ ~cancelled[s]) =>
            /\ event'[s] = "completed"
            /\ Entry(s)' =
                 DictUpdate(Entry(s),
                   [status |-> "completed", progress |-> 100,
                    video_id |-> upload_state[s].video_id,
                    video_url |-> <<"https://www.youtube.com/watch?v=",
                                    upload_state[s].video_id>>])]_vars
  /\ [](\A s \in Sessions :
          event[s] = "completed" =>
            /\ {"video_id", "video_url"} \subseteq DOMAIN Entry(s)
            /\ Entry(s)["status"] = "completed"
            /\ Entry(s)["progress"] = 100
            /\ Entry(s)["video_id"] = upload_state[s].video_id
            /\ Entry(s)["video_url"] =
                 <<"https://www.youtube.com/watch?v=", upload_state[s].video_id>>)

C19_Witness ==
  \E s \in Sessions :
    /\ event[s] = "completed"
    /\ ~cancelled[s]
    /\ sent[s] = 2
    /\ current_progress[s] = 60
    /\ Entry(s)["video_id"] = VideoId(s)
    /\ Entry(s)["video_url"] = <<"https://www.youtube.com/watch?v=", VideoId(s)>>

\* the positions of the stored log that carry the session's key
EntriesOf(s) ==
  {i \in 1..Len(load_upload_history(historyFile)) :
     KeyMatches(load_upload_history(historyFile)[i], history_timestamp[s])}

\* C20: every started session has exactly one entry, under a key no other
\* session has; the entry is created by the step that starts the session,
\* with status uploading and progress 0 and before any chunk is sent; later
\* an entry changes only in a step of its own session's poll.
C20_OneEntryPerAttempt ==
  /\ [](\A s \in Sessions :
          Started(s) =>
            /\ Cardinality(EntriesOf(s)) = 1
            /\ \A r \in Sessions :
                 (Started(r) /\ r # s) => history_timestamp[r] # history_timestamp[s])
  /\ [][\A s \in Sessions :
          /\ (~Started(s) /\ Started(s)') =>
               /\ Entry(s)'["status"] = "uploading"
               /\ Entry(s)'["progress"] = 0
               /\ sent'[s] = 0
               /\ Len(load_upload_history(historyFile)') = Len(load_upload_history(historyFile)) + 1
          /\ (Started(s) /\ Entry(s)' # Entry(s)) => ppc'[s] # ppc[s]]_vars

C20_Witness ==
  /\ \A s \in Sessions : ppc[s] = "stopped"
  /\ Len(load_upload_history(historyFile)) = MaxSessions
  /\ Entry(1)["status"] = "cancelled"
  /\ Entry(1)["progress"] = 30
  /\ Entry(2)["status"] = "completed"

\* C21: the worker looks at the cancel flag at the top of every iteration,
\* before next_chunk, and at no other place.  With the flag set: the check
\* sets done and returns without a next_chunk call; a call already past the
\* check is the only one still made (it returns or raises, and the worker
\* goes on to set done or back to the check); from every other position no
\* next_chunk call is made any more.  The flag stays set.
C21_AtMostOneChunkAfterCancel ==
  [][\A s \in Sessions :
       /\ sent'[s] # sent[s] => (wpc[s] = "chunk" /\ sent'[s] = sent[s] + 1)
       /\ (wpc[s] # "chunk" /\ wpc'[s] = "chunk") =>
            (wpc[s] = "check" /\ ~cancelled[s])
       /\ cancelled[s] =>
            /\ cancelled'[s]
            /\ wpc[s] # "chunk" => (sent'[s] = sent[s] /\ wpc'[s] # "chunk")
            /\ (wpc[s] = "chunk" /\ wpc'[s] # wpc[s]) =>
                 wpc'[s] \in {"check", "setresp", "setdone"}
            /\ (wpc[s] = "check" /\ wpc'[s] # wpc[s]) =>
                 /\ wpc'[s] = "exit"
                 /\ upload_state'[s].done
                 /\ upload_state'[s].response = NoId]_vars

\* cancelled while the second chunk was in flight or before it: the worker
\* returned from the check with one chunk sent and nothing else recorded
C21_Witness ==
  \E s \in Sessions :
    /\ cancelled[s]
    /\ wpc[s] = "exit"
    /\ upload_state[s].done
    /\ upload_state[s].response = NoId
    /\ upload_state[s].error = NoError
    /\ sent[s] = 1

\* C22: in every state (so at whatever moment a poll reads upload_state),
\* done set with no error recorded and the cancel flag unset means that the
\* response is recorded and video_id is its id; the poll that takes the
\* success branch therefore reads a recorded response and stores its id.
C22_NoTornTerminalState ==
  /\ [](\A s \in Sessions :
          (upload_state[s].done /\ upload_state[s].error = NoError /\ ~cancelled[s]) =>
            /\ upload_state[s].response # NoId
            /\ upload_state[s].video_id = upload_state[s].response)
  /\ [][\A s \in Sessions :
          (TerminalStep(s) /\ upload_state[s].error = NoError /\ ~cancelled[s]) =>
            /\ upload_state[s].response # NoId
            /\ event'[s] = "completed"
            /\ "video_id" \in DOMAIN Entry(s)'
            /\ Entry(s)'["video_id"] = upload_state[s].response]_vars

\* a poll is about to test done, which the worker has just set after the
\* response
C22_Witness ==
  \E s \in Sessions :
    /\ ppc[s] = "test"
    /\ wpc[s] = "exit"
    /\ upload_state[s].done
    /\ upload_state[s].error = NoError
    /\ ~cancelled[s]
    /\ upload_state[s].response = VideoId(s)
    /\ upload_state[s].video_id = VideoId(s)

\* C23: in no step of a started session does done go from true to false,
\* a recorded video_id change, or the stored status leave a terminal value
\* (for uploading or for another terminal value).
C23_NoBackwardMove ==
  [][\A s \in Sessions :
       Started(s) =>
         /\ upload_state[s].done => upload_state'[s].done
         /\ upload_state[s].video_id # NoId =>
              upload_state'[s].video_id = upload_state[s].video_id
         /\ Entry(s)["status"] \in TerminalStatus =>
              Entry(s)'["status"] = Entry(s)["status"]]_vars

\* a session that failed after the remote created the video, with a
\* cancel confirmed after the failure was reported
C23_Witness ==
  \E s \in Sessions :
    /\ ppc[s] = "stopped"
    /\ upload_state[s].done
    /\ cancelled[s]
    /\ Entry(s)["status"] = "failed"
    /\ OnChannel(VideoId(s))

\* C24: a step of the worker thread leaves the history file as it is, and
\* every step that changes the file is a step of the Tk event loop: _upload
\* (the append) or check_upload (an update), each of which loads, changes
\* and saves the log within the one step.
C24_HistoryOnControlContext ==
  [][/\ \A s \in Sessions : Worker(s) => historyFile' = historyFile
     /\ historyFile' # historyFile =>
          \E s \in Sessions : StartUpload(s) \/ PollHist(s) \/ PollTest(s)]_vars

\* the poll stored a progress value while a next_chunk call is in flight
C24_Witness ==
  \E s \in Sessions :
    /\ wpc[s] = "chunk"
    /\ sent[s] = 1
    /\ ppc[s] = "test"
    /\ Entry(s)["progress"] = 60
    /\ upload_state[s].progress = 60

\* C25: update_history_entry with a key some entry of the log has returns
\* True and saves a log of the same length in which the first entry with
\* that key holds the given fields with the given values and its other
\* fields as before, and every other entry is as before, in its place.
C25_UpdateMergesFirstMatch ==
  [][(histCall'.op = "update" /\ HasEntry(historyFile, histCall'.key)) =>
       LET before == historyFile.entries
           after == historyFile'.entries
           updates == histCall'.given
           first == Min({i \in 1..Len(before) : KeyMatches(before[i], histCall'.key)})
       IN /\ histRet' = TRUE
          /\ historyFile'.kind = "json"
          /\ Len(after) = Len(before)
          /\ \A i \in 1..Len(before) : i # first => after[i] = before[i]
          /\ DOMAIN after[first] = DOMAIN before[first] \cup DOMAIN updates
          /\ \A f \in DOMAIN updates : after[first][f] = updates[f]
          /\ \A f \in DOMAIN before[first] \ DOMAIN updates :
               after[first][f] = before[first][f]]_vars

\* two entries carry the key: the first of them, which is not the first
\* of the log, took the progress and kept its status and its key, the
\* entries around it are untouched
C25_Witness ==
  /\ histCall.op = "update"
  /\ histCall.given = [progress |-> 60]
  /\ histRet = TRUE
  /\ Len(historyFile.entries) = 3
  /\ ~KeyMatches(historyFile.entries[1], histCall.key)
  /\ KeyMatches(historyFile.entries[2], histCall.key)
  /\ KeyMatches(historyFile.entries[3], histCall.key)
  /\ historyFile.entries[2] =
       [uploaded_at |-> histCall.key, status |-> "uploading", progress |-> 60]
  /\ historyFile.entries[3] =
       [uploaded_at |-> histCall.key, status |-> "completed", progress |-> 0]

\* C26: the poll that observes done with the cancel flag set stores status
\* cancelled and runs the cleanup (delete of the recorded id, else a
\* search and a delete of what it finds), whether or not the worker had
\* recorded an error or a response; it stores failed or completed only
\* with the flag unset.
C26_CancelTakesPrecedence ==
  [][\A s \in Sessions :
       TerminalStep(s) =>
         IF cancelled[s]
         THEN /\ Entry(s)'["status"] = "cancelled"
              /\ "error" \notin DOMAIN Entry(s)'
              /\ event'[s] \in {"cancelled_deleted", "cancelled_delete_failed",
                                "cancelled_not_found"}
              /\ IF upload_state[s].video_id # NoId
                 THEN /\ searches'[s] = searches[s]
                      /\ deletes'[s] = Append(deletes[s], upload_state[s].video_id)
                 ELSE /\ searches'[s] = searches[s] + 1
                      /\ Len(deletes'[s]) =
                           Len(deletes[s]) + (IF event'[s] = "cancelled_not_found" THEN 0 ELSE 1)
         ELSE /\ Entry(s)'["status"] \in {"failed", "completed"}
              /\ event'[s] \in {"failed", "completed"}
              /\ searches'[s] = searches[s]
              /\ deletes'[s] = deletes[s]]_vars

\* the worker recorded an error, the flag was set when the poll observed
\* done, and the entry reads cancelled
C26_Witness ==
  \E s \in Sessions :
    /\ ppc[s] = "stopped"
    /\ upload_state[s].error = "OSError"
    /\ cancelled[s]
    /\ Entry(s)["status"] = "cancelled"
    /\ event[s] = "cancelled_not_found"
    /\ searches[s] = 1

\* C27: search().list and videos().delete are called only by the poll that
\* observes done with the cancel flag set; a session makes at most one
\* search and at most one delete call; a session whose entry reads
\* completed or failed has made none.
C27_CleanupOnlyWhenCancelled ==
  /\ [][\A s \in Sessions :
          (searches'[s] # searches[s] \/ deletes'[s] # deletes[s]) =>
            (TerminalStep(s) /\ cancelled[s])]_vars
  /\ [](\A s \in Sessions :
          /\ searches[s] <= 1
          /\ Len(deletes[s]) <= 1
          /\ (Started(s) /\ Entry(s)["status"] \in {"completed", "failed"}) =>
               (searches[s] = 0 /\ deletes[s] = <<>>))

\* a cancelled session whose search found a video, which was deleted
C27_Witness ==
  \E s \in Sessions :
    /\ ppc[s] = "stopped"
    /\ cancelled[s]
    /\ searches[s] = 1
    /\ Len(deletes[s]) = 1
    /\ event[s] = "cancelled_deleted"
    /\ ~OnChannel(deletes[s][1])

C29_CacheAndViewButton ==
  /\ [][(\/ slot_status_label # Searching /\ slot_status_label' = Searching
         \/ ResetForm) =>
          scheduled_videos_cache' = NoCache]_vars
  /\ [](view_schedule_btn = "normal" <=> scheduled_videos_cache # NoCache)
  /\ [](scheduled_videos_cache # NoCache =>
          LET videos == scheduled_videos_cache.videos
              latest == scheduled_videos_cache.latest
          IN /\ \E i \in 1..Len(videos) : videos[i] = latest
             /\ \A i \in 1..Len(videos) :
                  DtLeq(videos[i].publishAt, latest.publishAt)
             /\ scheduled_videos_cache.next_day = AddDays(latest.publishAtLocal, 1))

\* a second calculation has started after one that cached a schedule of
\* two videos: the cache is dropped and the button disabled
C29_Witness ==
  /\ slot_status_label = Searching
  /\ scheduled_videos_cache = NoCache
  /\ view_schedule_btn = "disabled"
  /\ slotCall.response.kind = "videos"
  /\ Len(ScheduledVideos(slotCall.response.items, slotCall.utc_offset_seconds)) = 2

\* C30: a datetime with seconds zero put into the schedule fields by
\* _set_schedule_datetime is what _get_scheduled_datetime reads back (same
\* date, hour and minute); the fields show hour 00 as 12 AM, hours 01 to 11
\* as AM, hour 12 as 12 PM and hours 13 to 23 as 01 to 11 PM.
C30_FieldsRoundTrip ==
  dtCall.step = "got" =>
    /\ dtCall.returned.valid
    /\ dtCall.returned.dt = dtCall.given
    /\ schedule.ampm_var = (IF dtCall.given.hour < 12 THEN "AM" ELSE "PM")
    /\ schedule.hour_var =
         Zfill(Str(IF dtCall.given.hour % 12 = 0 THEN 12 ELSE dtCall.given.hour % 12), 2)
    /\ Len(schedule.minute_var) = 2

\* five past midnight on a leap day: shown as 12:05 AM, read back as 00:05
C30_Witness ==
  /\ dtCall.step = "got"
  /\ dtCall.given = [year |-> 2024, month |-> 2, day |-> 29, hour |-> 0,
                     minute |-> 5, second |-> 0]
  /\ schedule.hour_var = <<"1", "2">>
  /\ schedule.minute_var = <<"0", "5">>
  /\ schedule.ampm_var = "AM"
  /\ dtCall.returned.valid
  /\ dtCall.returned.dt.hour = 0

====
